---- MODULE Spec2Model ----
(***************************************************************************)
(* The adaptive batch categorization pipeline of the daggerverse           *)
(* repository: CategorizeExpenses.categorize (the scheduler), its          *)
(* adjust_batch_size / cleanup_api_call_times telemetry and the classifier *)
(* script run by process_batch (the classification client).                *)
(*                                                                         *)
(* Time is counted in whole seconds.  A transaction is a function from     *)
(* field names to values; a classified one has "Category" in its domain.   *)
(* json.dumps / json.loads of lists of such mappings is a by-value copy,   *)
(* which is what passing a TLA+ value is.                                  *)
(***************************************************************************)
EXTENDS Integers, Sequences, FiniteSets, TLC

VARIABLES
    pc,                 \* where categorize stands: idle, loop, calling, sleeping, done, error
    data,               \* the `data` argument of categorize
    processed,          \* categorize: accumulated output
    unprocessed,        \* categorize: the work queue
    batch,              \* categorize: the batch of the current round
    start_time,         \* categorize: time.time() taken before the call
    current_batch_size, \* telemetry: batch size
    api_call_times,     \* telemetry: call-time history
    response_times,     \* telemetry: latency history
    now,                \* the wall clock
    transactions,       \* script: json.loads(sys.argv[1])
    idx,                \* script: position of the for loop (1-based)
    script_processed,   \* script: processed
    script_unprocessed, \* script: unprocessed
    sent,               \* descriptions posted to the endpoint by the running script
    response,           \* the response to the last request
    failsLeft,          \* endpoint: failures it may still answer, per description
    jitterLeft,         \* environment: slow calls / overlong sleeps still allowed
    output,             \* the value categorize returned
    rounds,             \* rounds the running invocation has started
    sleeps,             \* delays the running invocation has passed to asyncio.sleep
    invocations,        \* calls of categorize on this object so far
    ct_pc,              \* control position of spreadsheet, or of write
    sheet,              \* what get_spreadsheet_data returned
    collection,         \* the documents of the transactions collection, in natural order
    coll0,              \* the collection when the running operation started
    transactions_data,  \* the list handed to the running process_transactions
    retries,            \* process_transactions: failed attempts of this call
    calls,              \* process_transactions: calls that have returned
    ct_processed,       \* spreadsheet: processed
    ct_unprocessed,     \* spreadsheet: unprocessed
    parsed_data,        \* write_to_db / write: the list being written
    widx,               \* write_to_db / write: position in parsed_data
    upserted,           \* the records for which update_one has returned
    writes,             \* calls of write that have returned
    prev,               \* the list and the resulting collection of the last finished write
    ct_output,          \* what spreadsheet, or write, returned
    ct_error,           \* the exception that ended the operation
    attemptFailsLeft,   \* environment: container runs that may still fail
    dbFailsLeft,        \* environment: database operations that may still fail
    au_pc,              \* where authenticate stands: off, idle, loop, returned, raised
    au_retries,         \* authenticate: retries
    au_attempts,        \* how the MongoClient constructions of the running call ended
    au_result,          \* what authenticate returned or raised
    au_calls,           \* how the calls of authenticate so far ended
    ts_pc,              \* where the script of test.py stands: off, loop, printed, exit
    ts_transactions,    \* script of test.py: transactions
    ts_idx,             \* script of test.py: position of the for loop (1-based)
    attempts,           \* script of test.py: attempts
    request_count,      \* script of test.py: request_count
    ts_start_time,      \* script of test.py: start_time
    ts_now,             \* the clock of the script's container
    ts_sent,            \* descriptions the script of test.py has posted
    ts_sent_at,         \* the time of each of these requests
    ts_response,        \* the response to its last request
    ts_sleeps,          \* the delays it has passed to time.sleep
    ts_output,          \* what it printed
    loadingLeft         \* endpoint: model-loading answers it may still give

cevars == << pc, data, processed, unprocessed, batch, start_time, current_batch_size,
           api_call_times, response_times, now, transactions, idx, script_processed,
           script_unprocessed, sent, response, failsLeft, jitterLeft, output,
           rounds, sleeps, invocations >>

\* the state of CategorizeTransactions.spreadsheet and of WriteToMongo.write
ctvars == << ct_pc, sheet, collection, coll0, transactions_data, retries, calls,
             ct_processed, ct_unprocessed, parsed_data, widx, upserted, writes, prev,
             ct_output, ct_error, attemptFailsLeft, dbFailsLeft >>

auvars == << au_pc, au_retries, au_attempts, au_result, au_calls >>

tsvars == << ts_pc, ts_transactions, ts_idx, attempts, request_count, ts_start_time,
            ts_now, ts_sent, ts_sent_at, ts_response, ts_sleeps, ts_output,
            loadingLeft >>

auxvars == << auvars, tsvars >>

vars == << cevars, ctvars, auxvars >>

----------------------------------------------------------------------------
(* Bounds of the model *)

\* longest input list of the general specification
MaxLen == 3
\* failures the endpoint may answer per record in the general specification
MaxFails == 6
\* slow calls plus overlong sleeps in one run of the general specification
MaxJitter == 1
\* longest input list of the long-outage specification
LongLen == 2
\* failures the endpoint may answer per record in the long-outage specification
LongFails == 52
\* failures the endpoint may answer per record in the fair specification
LiveFails == 2
\* length of the input list of the scenario specification
ScenarioLen == 5
\* failures the endpoint may answer per record in the scenario specification
ScenarioFails == 1
\* longest input list, failures per record and calls of categorize on one object
\* in the specification of repeated calls
ProcLen == 2
ProcFails == 1
MaxInvocations == 2

\* the runs with slow calls: records, failures per record, timing deviations
TimingLen == 1
TimingFails == 6
TimingJitter == 1

\* a list one record longer than the initial batch size, never failed
BulkLen == 51

\* the runs with records that never classify: rounds followed, timing deviations
BlockRounds == 6
BlockJitter == 4

(* Program constants *)

initial_batch_size == 50
retry_delay == 5
\* the rate-limit window, in seconds
Window == 60
\* number of trailing latency samples that are averaged
LatencySamples == 5
\* the mean latency under which the batch grows, in seconds
LatencyLimit == 1
\* the smallest batch size
MinBatch == 1

----------------------------------------------------------------------------
(* Transactions and the classification endpoint *)

Max(a, b) == IF a >= b THEN a ELSE b
Min(a, b) == IF a <= b THEN a ELSE b

RECURSIVE Sum(_)
Sum(s) == IF s = << >> THEN 0 ELSE Head(s) + Sum(Tail(s))

\* the last n elements of s (python s[-n:])
LastN(s, n) == SubSeq(s, Max(1, Len(s) - n + 1), Len(s))

\* python s[:n] and s[n:] for n >= 0
Take(s, n) == SubSeq(s, 1, Min(n, Len(s)))
Drop(s, n) == SubSeq(s, Min(n, Len(s)) + 1, Len(s))

\* the i-th input transaction
Txn(i) == [Description |-> i, Amount |-> i]

Descriptions(n) == 1 .. n

\* a valid payload holding n transactions, and the unparsable one
Payload(n) == [valid |-> TRUE, value |-> [i \in 1 .. n |-> Txn(i)]]
Malformed == [valid |-> FALSE, value |-> << >>]

\* the ranked labels the classifier gives a description (a fixed function of the text)
Ranking(description) ==
    IF description % 2 = 1 THEN << "Grocery", "Snacks" >> ELSE << "Snacks", "Grocery" >>

\* a response carrying ranked labels and scores
Labelled(description) ==
    [status |-> 200, data |-> [labels |-> Ranking(description), scores |-> << 9, 1 >>]]

\* the responses that carry no usable classification: success status without scores,
\* success status with an error payload, rate limit, server error, model loading
Failures(description) ==
    { [status |-> 200, data |-> [labels |-> Ranking(description)]],
      [status |-> 200, data |-> [error |-> "unexpected"]],
      [status |-> 429, data |-> [error |-> "rate limit reached"]],
      [status |-> 500, data |-> [error |-> "internal error"]],
      [status |-> 503, data |-> [error |-> "model is loading", estimated_time |-> 20]] }

NoResponse == [status |-> 0, data |-> [none |-> TRUE]]

\* the failure budget of a description the endpoint never classifies
Never == 0 - 1

\* what such a description is answered: a success status without scores or a
\* server error, the two ways into the script's unprocessed list
Refusals(description) ==
    { [status |-> 200, data |-> [labels |-> Ranking(description)]],
      [status |-> 500, data |-> [error |-> "internal error"]] }

\* what the endpoint may answer to a request for `description`: a classification, or,
\* while it has failures left for that description, one of the failures; a
\* description it never classifies gets a refusal
Endpoint(description) ==
    IF failsLeft[description] = Never
    THEN Refusals(description)
    ELSE { Labelled(description) } \cup
         (IF failsLeft[description] > 0 THEN Failures(description) ELSE { })

\* requests.Response.ok
ResponseOk(r) == r.status < 400

\* 'labels' in data and 'scores' in data
HasLabels(r) == "labels" \in DOMAIN r.data /\ "scores" \in DOMAIN r.data

\* mutant: the script calls raise_for_status on a non-success status
ScriptOutcomeRaiseForStatus(r) ==
    IF ResponseOk(r)
    THEN IF HasLabels(r) THEN "processed" ELSE "unprocessed"
    ELSE "raise"

\* mutant: the script reads data['labels'] without testing for the fields (KeyError)
ScriptOutcomeKeyError(r) ==
    IF ResponseOk(r)
    THEN IF HasLabels(r) THEN "processed" ELSE "raise"
    ELSE "unprocessed"

\* script lines 121-129: what the script does with the transaction on response r:
\* "processed", "unprocessed", or "raise" when it would end in an exception
ScriptOutcome(r) ==
    IF ResponseOk(r)
    THEN IF HasLabels(r) THEN "processed" ELSE "unprocessed"
    ELSE "unprocessed"

\* mutant: the script also rewrites the amount of the record it classifies
WithCategoryAmountReset(t, r) == ("Category" :> r.data.labels[1]) @@ ("Amount" :> 0) @@ t

\* mutant: the lowest-ranked label is taken
WithCategoryLast(t, r) == ("Category" :> r.data.labels[Len(r.data.labels)]) @@ t

\* transaction['Category'] = data['labels'][0]
WithCategory(t, r) == ("Category" :> r.data.labels[1]) @@ t

\* mutant: a failed record is tagged before it is handed back
UnclassifiedTagged(t, r) == ("Category" :> "Unknown") @@ t

\* the record the script appends to its unprocessed list
Unclassified(t, r) == t

\* mutant: a model-loading response makes the script post the transaction again
RequestsResendOnLoading(t, r) ==
    IF "estimated_time" \in DOMAIN r.data
    THEN << t.Description, t.Description >>
    ELSE << t.Description >>

\* mutant: every description is posted twice
RequestsTwice(t, r) == << t.Description, t.Description >>

\* the requests the script posts for one transaction, given the response to the first
Requests(t, r) == << t.Description >>

\* the time a classification call may take, and the time a sleep may take
Durations == { 0, 5 }
Sleeps == { retry_delay, Window }

\* the time a slow classification call may take
SlowDurations == { Window - retry_delay, Window }

----------------------------------------------------------------------------
(* Telemetry *)

\* mutant: the decrease needs three calls in the window
adjust_batch_size_needs_three ==
    IF Len(api_call_times) > 2
         /\ api_call_times[Len(api_call_times)] - api_call_times[1] < Window
    THEN Max(MinBatch, current_batch_size - 1)
    ELSE IF Len(response_times) >= LatencySamples
              /\ Sum(LastN(response_times, LatencySamples)) \div LatencySamples < LatencyLimit
         THEN current_batch_size + 1
         ELSE current_batch_size

\* mutant: the decrease is not floored
adjust_batch_size_no_floor ==
    IF Len(api_call_times) > 1
         /\ api_call_times[Len(api_call_times)] - api_call_times[1] < Window
    THEN current_batch_size - 1
    ELSE IF Len(response_times) >= LatencySamples
              /\ Sum(LastN(response_times, LatencySamples)) \div LatencySamples < LatencyLimit
         THEN current_batch_size + 1
         ELSE current_batch_size

\* mutant: the latency test comes first
adjust_batch_size_increase_first ==
    IF Len(response_times) >= LatencySamples
         /\ Sum(LastN(response_times, LatencySamples)) \div LatencySamples < LatencyLimit
    THEN current_batch_size + 1
    ELSE IF Len(api_call_times) > 1
              /\ api_call_times[Len(api_call_times)] - api_call_times[1] < Window
         THEN Max(MinBatch, current_batch_size - 1)
         ELSE current_batch_size

\* adjust_batch_size: the batch size of the round about to start
adjust_batch_size ==
    IF Len(api_call_times) > 1
         /\ api_call_times[Len(api_call_times)] - api_call_times[1] < Window
    THEN Max(MinBatch, current_batch_size - 1)
    ELSE IF Len(response_times) >= LatencySamples
              /\ Sum(LastN(response_times, LatencySamples)) \div LatencySamples < LatencyLimit
         THEN current_batch_size + 1
         ELSE current_batch_size

\* mutant: nothing is pruned
cleanup_api_call_times_keeps_all(times, current_time) == times

\* mutant: a call exactly one window old is kept
cleanup_api_call_times_inclusive(times, current_time) ==
    SelectSeq(times, LAMBDA call_time : current_time - call_time <= Window)

\* cleanup_api_call_times at time current_time
cleanup_api_call_times(times, current_time) ==
    SelectSeq(times, LAMBDA call_time : current_time - call_time < Window)

----------------------------------------------------------------------------
(* Initial states *)

\* authenticate is not running
AuthOff ==
    /\ au_pc = "off"
    /\ au_retries = 0
    /\ au_attempts = << >>
    /\ au_result = "none"
    /\ au_calls = << >>

\* the script of test.py is not running
ScriptOff ==
    /\ ts_pc = "off"
    /\ ts_transactions = << >>
    /\ ts_idx = 1
    /\ attempts = 0
    /\ request_count = 0
    /\ ts_start_time = 0
    /\ ts_now = 0
    /\ ts_sent = << >>
    /\ ts_sent_at = << >>
    /\ ts_response = [status |-> 0, data |-> [none |-> TRUE]]
    /\ ts_sleeps = << >>
    /\ ts_output = << >>
    /\ loadingLeft = 0

AuxOff == AuthOff /\ ScriptOff

\* neither spreadsheet nor write has started
PipelineIdle ==
    /\ transactions_data = << >>
    /\ retries = 0
    /\ calls = 0
    /\ ct_processed = << >>
    /\ ct_unprocessed = << >>
    /\ parsed_data = << >>
    /\ widx = 1
    /\ upserted = << >>
    /\ writes = 0
    /\ prev = [list |-> << >>, result |-> << >>]
    /\ ct_output = << >>
    /\ ct_error = "none"

\* no spreadsheet pipeline and no database write runs beside categorize
PipelineOff ==
    /\ AuxOff
    /\ ct_pc = "off"
    /\ sheet = Malformed
    /\ collection = << >>
    /\ coll0 = << >>
    /\ PipelineIdle
    /\ attemptFailsLeft = 0
    /\ dbFailsLeft = 0

InitRun ==
    /\ pc = "idle"
    /\ processed = << >>
    /\ unprocessed = << >>
    /\ batch = << >>
    /\ start_time = 0
    /\ current_batch_size = initial_batch_size
    /\ api_call_times = << >>
    /\ response_times = << >>
    /\ now = 0
    /\ transactions = << >>
    /\ idx = 1
    /\ script_processed = << >>
    /\ script_unprocessed = << >>
    /\ sent = << >>
    /\ response = NoResponse
    /\ output = << >>
    /\ rounds = 0
    /\ sleeps = << >>
    /\ invocations = 1
    /\ PipelineOff

Init ==
    /\ InitRun
    /\ \E n \in 0 .. MaxLen :
        /\ data \in { Payload(n), Malformed }
        /\ failsLeft = [d \in Descriptions(MaxLen) |-> MaxFails]
    /\ jitterLeft = MaxJitter

InitLong ==
    /\ InitRun
    /\ \E n \in 0 .. LongLen :
        /\ data \in { Payload(n), Malformed }
        /\ failsLeft = [d \in Descriptions(LongLen) |-> LongFails]
    /\ jitterLeft = 0

\* the runs in which the endpoint answers every request with labels: the empty list,
\* one record, a list that fills one batch and a list that needs a second round
InitBulk ==
    /\ InitRun
    /\ \E n \in { 0, 1, BulkLen - 1, BulkLen } : data \in { Payload(n), Malformed }
    /\ failsLeft = [d \in Descriptions(BulkLen) |-> 0]
    /\ jitterLeft = MaxJitter

\* the runs in which a call may be slow
InitTiming ==
    /\ InitRun
    /\ \E n \in 0 .. TimingLen :
        /\ data \in { Payload(n), Malformed }
        /\ failsLeft = [d \in Descriptions(TimingLen) |-> TimingFails]
    /\ jitterLeft = TimingJitter

\* the runs in which the first initial_batch_size records of the list never classify
\* and the records behind them classify at once; and the empty list
InitBlock ==
    /\ InitRun
    /\ data \in { Payload(0), Payload(BulkLen), Malformed }
    /\ failsLeft = [d \in Descriptions(BulkLen) |->
                        IF d <= initial_batch_size THEN Never ELSE 0]
    /\ jitterLeft = BlockJitter

InitLive ==
    /\ InitRun
    /\ \E n \in 0 .. MaxLen :
        /\ data \in { Payload(n), Malformed }
        /\ failsLeft = [d \in Descriptions(MaxLen) |-> LiveFails]
    /\ jitterLeft = 0

\* the scenario runs: ScenarioLen records, each may fail ScenarioFails times
InitScenario ==
    /\ InitRun
    /\ data = Payload(ScenarioLen)
    /\ failsLeft = [d \in Descriptions(ScenarioLen) |-> ScenarioFails]
    /\ jitterLeft = 0

\* the runs in which categorize is called more than once on one object
InitProc ==
    /\ InitRun
    /\ \E n \in 0 .. ProcLen :
        /\ data \in { Payload(n), Malformed }
        /\ failsLeft = [d \in Descriptions(ProcLen) |-> ProcFails]
    /\ jitterLeft = 0

----------------------------------------------------------------------------
(* categorize *)

\* mutant: an unparsable payload is taken for an empty list
ParsesLenient(d) == TRUE

\* whether json.loads(data) returns (line 63); it raises otherwise
Parses(d) == d.valid

\* lines 61-63: json.loads(data); an unparsable payload raises
Invoke ==
    /\ pc = "idle"
    /\ IF Parses(data)
       THEN /\ pc' = "loop"
            /\ unprocessed' = data.value
       ELSE /\ pc' = "error"
            /\ UNCHANGED unprocessed
    /\ processed' = << >>
    /\ rounds' = 0
    /\ sleeps' = << >>
    /\ UNCHANGED << data, batch, start_time, current_batch_size, api_call_times,
                    response_times, now, transactions, idx, script_processed,
                    script_unprocessed, sent, response, failsLeft, jitterLeft, output,
                    invocations >>
    /\ UNCHANGED << ctvars, auxvars >>

\* mutant: the loop body runs before the queue is tested
WhileUnprocessedDoWhile(q) == TRUE

\* line 65: while unprocessed
WhileUnprocessed(q) == q # << >>

\* mutant: the call of process_batch is not awaited
AtLoopTestNoAwait == pc \in { "loop", "calling" }

\* control is at the loop test of line 65: the previous round, if any, is through
\* line 83
AtLoopTest == pc = "loop"

\* the batch drawn from queue q with batch size n: unprocessed[:batch_size]
DrawBatch(q, n) == Take(q, n)

\* mutant: the slice that stays queued starts one record too late
RemainderSkipsOne(q, n) == Drop(q, n + 1)

\* what stays queued: unprocessed[batch_size:]
Remainder(q, n) == Drop(q, n)

\* lines 65-71 and 133-138: a round starts; the script is started on the batch
\* a run that cannot end is followed for BlockRounds rounds
WithinHorizon == (\E d \in DOMAIN failsLeft : failsLeft[d] = Never) => rounds < BlockRounds

RoundStart ==
    /\ AtLoopTest
    /\ WhileUnprocessed(unprocessed)
    /\ WithinHorizon
    /\ rounds' = rounds + 1
    /\ current_batch_size' = adjust_batch_size
    /\ batch' = DrawBatch(unprocessed, current_batch_size')
    /\ unprocessed' = Remainder(unprocessed, current_batch_size')
    /\ start_time' = now
    /\ transactions' = batch'
    /\ idx' = 1
    /\ script_processed' = << >>
    /\ script_unprocessed' = << >>
    /\ sent' = << >>
    /\ response' = NoResponse
    /\ pc' = "calling"
    /\ UNCHANGED << data, processed, api_call_times, response_times, now,
                    failsLeft, jitterLeft, output, sleeps, invocations >>
    /\ UNCHANGED << ctvars, auxvars >>

\* script lines 117-129: one iteration of the for loop.  An exception in the script
\* fails the container (line 140) and, uncaught at line 71, ends categorize in error
ScriptStep ==
    /\ pc = "calling"
    /\ idx <= Len(transactions)
    /\ LET transaction == transactions[idx]
           description == transaction.Description
       IN \E r \in Endpoint(description) :
            /\ sent' = sent \o Requests(transaction, r)
            /\ response' = r
            /\ failsLeft' = IF r \in Failures(description) /\ failsLeft[description] > 0
                            THEN [failsLeft EXCEPT ![description] = @ - 1]
                            ELSE failsLeft
            /\ script_processed' =
                    IF ScriptOutcome(r) = "processed"
                    THEN Append(script_processed, WithCategory(transaction, r))
                    ELSE script_processed
            /\ script_unprocessed' =
                    IF ScriptOutcome(r) = "unprocessed"
                    THEN Append(script_unprocessed, Unclassified(transaction, r))
                    ELSE script_unprocessed
            /\ pc' = IF ScriptOutcome(r) = "raise" THEN "error" ELSE "calling"
    /\ idx' = idx + 1
    /\ UNCHANGED << data, processed, unprocessed, batch, start_time,
                    current_batch_size, api_call_times, response_times, now,
                    transactions, jitterLeft, output, rounds, sleeps, invocations >>
    /\ UNCHANGED << ctvars, auxvars >>

\* mutant: the failed records of the batch go behind the untouched records
RequeueAtBack(batch_unprocessed, rest) == rest \o batch_unprocessed

\* mutant: the failed records of the batch are not put back
RequeueDropsFailed(batch_unprocessed, rest) == rest

\* the queue after a round: failed records of the batch and the untouched remainder
Requeue(batch_unprocessed, rest) == batch_unprocessed \o rest

\* mutant: the classified records of a round go in front of the earlier ones
ExtendAtFront(list, items) == items \o list

\* line 78: processed.extend(batch_processed)
Extend(list, items) == list \o items

\* mutant: the loop sleeps after every round
ShouldSleepAlways(q) == TRUE

\* line 81: if unprocessed
ShouldSleep(q) == q # << >>

\* script line 131, lines 140-142 and 72-83: the call returns, telemetry is updated,
\* results are merged and the loop either sleeps or goes back to its test.  The call
\* took d seconds; time.time() at line 98 reads the same second as at line 72
RoundEndWithin(durations) ==
    /\ pc = "calling"
    /\ idx > Len(transactions)
    /\ \E d \in durations :
        /\ d # 0 => jitterLeft > 0
        /\ jitterLeft' = IF d # 0 THEN jitterLeft - 1 ELSE jitterLeft
        /\ LET end_time == now + d
           IN /\ now' = end_time
              /\ api_call_times' =
                    cleanup_api_call_times(Append(api_call_times, end_time), end_time)
              /\ response_times' = Append(response_times, end_time - start_time)
    /\ processed' = Extend(processed, script_processed)
    /\ unprocessed' = Requeue(script_unprocessed, unprocessed)
    /\ response' = NoResponse
    /\ pc' = IF ShouldSleep(unprocessed') THEN "sleeping" ELSE "loop"
    /\ sleeps' = IF ShouldSleep(unprocessed') THEN Append(sleeps, retry_delay) ELSE sleeps
    /\ UNCHANGED << data, batch, start_time, current_batch_size, transactions, idx,
                    script_processed, script_unprocessed, sent, failsLeft, output,
                    rounds, invocations >>
    /\ UNCHANGED << ctvars, auxvars >>

RoundEnd == RoundEndWithin(Durations)

\* the same, after a call that took most of a window or a whole one
SlowRoundEnd == RoundEndWithin(SlowDurations)

\* line 83: asyncio.sleep(retry_delay) is over; it lasts at least retry_delay
Wake ==
    /\ pc = "sleeping"
    /\ \E s \in Sleeps :
        /\ s # retry_delay => jitterLeft > 0
        /\ jitterLeft' = IF s # retry_delay THEN jitterLeft - 1 ELSE jitterLeft
        /\ now' = now + s
    /\ pc' = "loop"
    /\ UNCHANGED << data, processed, unprocessed, batch, start_time, current_batch_size,
                    api_call_times, response_times, transactions, idx, script_processed,
                    script_unprocessed, sent, response, failsLeft, output,
                    rounds, sleeps, invocations >>
    /\ UNCHANGED << ctvars, auxvars >>

\* lines 65 and 85: the queue is empty, categorize returns json.dumps(processed)
Return ==
    /\ pc = "loop"
    /\ ~WhileUnprocessed(unprocessed)
    /\ output' = processed
    /\ pc' = "done"
    /\ UNCHANGED << data, processed, unprocessed, batch, start_time, current_batch_size,
                    api_call_times, response_times, now, transactions, idx,
                    script_processed, script_unprocessed, sent, response, failsLeft,
                    jitterLeft, rounds, sleeps, invocations >>
    /\ UNCHANGED << ctvars, auxvars >>

\* categorize is called again on the same object, at once or a window later, with a
\* new payload: the attributes set on the object and on its class are as the earlier
\* call left them (lines 53-56, 74-76, 90-92, 99)
Reinvoke ==
    /\ pc = "done"
    /\ invocations < MaxInvocations
    /\ invocations' = invocations + 1
    /\ \E n \in 0 .. ProcLen : data' = Payload(n)
    /\ \E gap \in { 0, Window } : now' = now + gap
    /\ failsLeft' = [d \in Descriptions(ProcLen) |-> ProcFails]
    /\ pc' = "idle"
    /\ UNCHANGED << processed, unprocessed, batch, start_time, current_batch_size,
                    api_call_times, response_times, transactions, idx,
                    script_processed, script_unprocessed, sent, response,
                    jitterLeft, output, rounds, sleeps >>
    /\ UNCHANGED << ctvars, auxvars >>

Next == Invoke \/ RoundStart \/ ScriptStep \/ RoundEnd \/ Wake \/ Return

NextProc == Next \/ Reinvoke

Spec == Init /\ [][Next]_vars

LongSpec == InitLong /\ [][Next]_vars

\* the general and the long-outage runs together
AllSpec == (Init \/ InitLong) /\ [][Next]_vars

\* the general runs with slow calls
NextTiming == Next \/ SlowRoundEnd

TimingSpec == InitTiming /\ [][NextTiming]_vars

\* the runs with slow calls and the long-outage runs together
TimingLongSpec == (InitTiming \/ InitLong) /\ [][NextTiming]_vars

\* the runs with records that never classify
BlockSpec == InitBlock /\ [][Next]_vars

\* the runs without a failure
BulkSpec == InitBulk /\ [][Next]_vars

\* the scenario of five records
ScenarioSpec == InitScenario /\ [][Next]_vars

\* categorize called up to MaxInvocations times on one object
ProcSpec == InitProc /\ [][NextProc]_vars

\* the event loop resumes the coroutine, the script runs on and every sleep ends
LiveSpec == InitLive /\ [][Next]_vars /\ WF_vars(Next)

----------------------------------------------------------------------------
(* The transactions collection: writeToMongo and the write step of
   categorizeTransactions *)

\* largest Transaction ID of the records handed to write
MaxIds == 2
\* longest list handed to the first call of write
MaxWriteLen == 2
\* calls of write in one run
MaxWrites == 2
\* database operations that may fail in one run
DbFails == 1

\* what dict.get returns for a missing key, and the null of the database
None == 0

\* transaction.get(key)
Get(transaction, key) == IF key \in DOMAIN transaction THEN transaction[key] ELSE None

\* categorize is not running
CategorizeOff ==
    /\ pc = "off"
    /\ data = Payload(0)
    /\ processed = << >>
    /\ unprocessed = << >>
    /\ batch = << >>
    /\ start_time = 0
    /\ current_batch_size = initial_batch_size
    /\ api_call_times = << >>
    /\ response_times = << >>
    /\ now = 0
    /\ transactions = << >>
    /\ idx = 1
    /\ script_processed = << >>
    /\ script_unprocessed = << >>
    /\ sent = << >>
    /\ response = NoResponse
    /\ jitterLeft = 0
    /\ output = << >>
    /\ rounds = 0
    /\ sleeps = << >>
    /\ invocations = 0

\* the records a caller may hand to write: with or without a Transaction ID, with
\* a Category or with a field of empty name (a spreadsheet column without header);
\* and the empty record
Extras == { "unnamed", "Grocery", "Snacks" }

WriteRecord(id, extra) ==
    LET base == IF id = None
                THEN ("Description" :> 1)
                ELSE ("Transaction ID" :> id) @@ ("Description" :> id)
    IN IF extra = "unnamed" THEN ("" :> 1) @@ base ELSE ("Category" :> extra) @@ base

WriteRecords ==
    { WriteRecord(id, extra) : id \in { None } \cup 1 .. MaxIds, extra \in Extras } \cup { << >> }

\* the parsable payloads of at most n records, and all payloads
WriteLists(n) == UNION { [1 .. k -> WriteRecords] : k \in 0 .. n }

WritePayloads(n) == { [valid |-> TRUE, value |-> list] : list \in WriteLists(n) }

\* `if not transaction`: true of the empty record only
Skipped(transaction) == DOMAIN transaction = { }

\* mutant: the fields are written under whatever name they have
update_document_all_keys(transaction) == transaction

\* {"$set": {key: value for key, value in transaction.items() if key}}
update_document(transaction) ==
    [key \in { k \in DOMAIN transaction : k # "" } |-> transaction[key]]

\* the filter {'Transaction ID': transaction_id}: a null matches a missing field too
Matches(document, transaction_id) == Get(document, "Transaction ID") = transaction_id

\* mutant: insert_one instead of an upsert
update_one_insert_only(documents, transaction_id, set) ==
    Append(documents, set @@ ("Transaction ID" :> transaction_id))

\* update_one(filter, {"$set": set}, upsert=True): the first matching document gets
\* the fields of set; without a match a document is inserted, made of the filter's
\* field and the fields of set
update_one(documents, transaction_id, set) ==
    LET matching == { i \in 1 .. Len(documents) : Matches(documents[i], transaction_id) }
    IN IF matching # { }
       THEN LET first == CHOOSE i \in matching : \A j \in matching : i <= j
            IN [documents EXCEPT ![first] = set @@ @]
       ELSE Append(documents, set @@ ("Transaction ID" :> transaction_id))

\* mutant: the loop builds the update document and issues nothing
WrittenNothing(documents, transaction) == documents

\* one iteration of the for loop of write (lines 49-59) and of write_to_db
Written(documents, transaction) ==
    IF Skipped(transaction)
    THEN documents
    ELSE update_one(documents, Get(transaction, "Transaction ID"),
                    update_document(transaction))

\* mutant: a failed write is undone
AfterFailureRolledBack(documents, before) == before

\* the collection after an exception left the write loop: lines 60-61 and 143-144
\* re-raise and undo nothing
AfterFailure(documents, before) == documents

InitMongo ==
    /\ CategorizeOff
    /\ AuxOff
    /\ failsLeft = [d \in Descriptions(0) |-> 0]
    /\ ct_pc = "off"
    /\ sheet = Malformed
    /\ collection = << >>
    /\ coll0 = << >>
    /\ PipelineIdle
    /\ attemptFailsLeft = 0
    /\ dbFailsLeft = DbFails

\* write, lines 45-47: authenticate, json.loads(transactions).  The first call gets
\* any payload; a later call gets the same list again, or a list of at most one record
WriteCall ==
    /\ ct_pc \in { "off", "written" }
    /\ writes < MaxWrites
    /\ \E payload \in (IF writes = 0
                       THEN WritePayloads(MaxWriteLen) \cup { Malformed }
                       ELSE WritePayloads(1) \cup { [valid |-> TRUE, value |-> prev.list] }) :
        IF Parses(payload)
        THEN /\ parsed_data' = payload.value
             /\ ct_pc' = "write"
             /\ UNCHANGED ct_error
        ELSE /\ ct_pc' = "error"
             /\ ct_error' = "JSONDecodeError"
             /\ UNCHANGED parsed_data
    /\ widx' = 1
    /\ coll0' = collection
    /\ UNCHANGED << sheet, collection, transactions_data, retries, calls, ct_processed,
                    ct_unprocessed, upserted, writes, prev, ct_output,
                    attemptFailsLeft, dbFailsLeft >>
    /\ UNCHANGED << cevars, auxvars >>

\* write, lines 49-59: one iteration of the loop; update_one may raise
WriteUpsert ==
    /\ ct_pc = "write"
    /\ widx <= Len(parsed_data)
    /\ \/ /\ collection' = Written(collection, parsed_data[widx])
          /\ upserted' = IF Skipped(parsed_data[widx])
                         THEN upserted
                         ELSE Append(upserted, parsed_data[widx])
          /\ widx' = widx + 1
          /\ UNCHANGED << ct_pc, ct_error, dbFailsLeft >>
       \/ /\ ~Skipped(parsed_data[widx])
          /\ dbFailsLeft > 0
          /\ dbFailsLeft' = dbFailsLeft - 1
          /\ collection' = AfterFailure(collection, coll0)
          /\ ct_pc' = "error"
          /\ ct_error' = "PyMongoError"
          /\ UNCHANGED << upserted, widx >>
    /\ UNCHANGED << sheet, coll0, transactions_data, retries, calls, ct_processed,
                    ct_unprocessed, parsed_data, writes, prev, ct_output,
                    attemptFailsLeft >>
    /\ UNCHANGED << cevars, auxvars >>

\* write, line 62: the returned string, held as a one-element list
WriteReturn ==
    /\ ct_pc = "write"
    /\ widx > Len(parsed_data)
    /\ ct_output' = << "Success" >>
    /\ writes' = writes + 1
    /\ prev' = [list |-> parsed_data, result |-> collection]
    /\ ct_pc' = "written"
    /\ UNCHANGED << sheet, collection, coll0, transactions_data, retries, calls,
                    ct_processed, ct_unprocessed, parsed_data, widx, upserted,
                    ct_error, attemptFailsLeft, dbFailsLeft >>
    /\ UNCHANGED << cevars, auxvars >>

NextMongo == WriteCall \/ WriteUpsert \/ WriteReturn

\* WriteToMongo.write called up to MaxWrites times on a collection that starts empty
MongoSpec == InitMongo /\ [][NextMongo]_vars

----------------------------------------------------------------------------
(* CategorizeTransactions.spreadsheet *)

\* rows of the spreadsheet
SheetLen == 2
\* failures the endpoint may answer per record in a run of spreadsheet
PipeFails == 1
\* container runs that may fail in a run of spreadsheet
AttemptFails == 3

\* process_transactions, lines 70 and 117
max_retries == 3
attempt_delay == 5

\* the i-th row of the spreadsheet
SheetTxn(i) == ("Transaction ID" :> i) @@ ("Description" :> i)

\* what get_spreadsheet_data prints for a sheet of n rows
SheetPayload(n) == [valid |-> TRUE, value |-> [i \in 1 .. n |-> SheetTxn(i)]]

\* the documents earlier runs stored for the rows in S, in the order of the rows
Stored(S) ==
    LET rows == SelectSeq([i \in 1 .. SheetLen |-> i], LAMBDA i : i \in S)
    IN [j \in 1 .. Len(rows) |->
            WithCategory(SheetTxn(rows[j]), Labelled(rows[j]))]

InitPipe ==
    /\ CategorizeOff
    /\ AuxOff
    /\ failsLeft = [d \in Descriptions(SheetLen) |-> PipeFails]
    /\ ct_pc = "start"
    /\ sheet \in { SheetPayload(n) : n \in 0 .. SheetLen } \cup { Malformed }
    /\ collection \in { Stored(S) : S \in SUBSET (1 .. SheetLen) }
    /\ coll0 = collection
    /\ PipelineIdle
    /\ attemptFailsLeft = AttemptFails
    /\ dbFailsLeft = DbFails

\* mutant: every row is taken for new
filter_existing_keeps_all(list, documents) == list

\* FilterForNewTransactions.filter, lines 38-39: the ids of the documents that have
\* the field, and the transactions whose id is not among them
filter(list, documents) ==
    LET existing_ids ==
            { Get(documents[i], "Transaction ID") :
                i \in { j \in 1 .. Len(documents) : "Transaction ID" \in DOMAIN documents[j] } }
    IN SelectSeq(list, LAMBDA trans : Get(trans, "Transaction ID") \notin existing_ids)

\* filter_existing, lines 151-152
filter_existing(list, documents) ==
    LET existing_ids == { documents[i]["Transaction ID"] : i \in 1 .. Len(documents) }
    IN SelectSeq(list, LAMBDA trans : Get(trans, "Transaction ID") \notin existing_ids)

\* mutant: the count of failed attempts is carried over from the previous call
RetriesAtCallKept(r) == r

\* process_transactions, line 71: retries = 0
RetriesAtCall(r) == 0

\* lines 21-23: the sheet is fetched and filter_existing parses it (line 149), reads
\* the stored ids and keeps the new rows; line 24 calls process_transactions
FilterExisting ==
    /\ ct_pc = "start"
    /\ \/ /\ ~Parses(sheet)
          /\ ct_pc' = "error"
          /\ ct_error' = "JSONDecodeError"
          /\ UNCHANGED << transactions_data, dbFailsLeft >>
       \/ /\ Parses(sheet)
          /\ dbFailsLeft > 0
          /\ dbFailsLeft' = dbFailsLeft - 1
          /\ ct_pc' = "error"
          /\ ct_error' = "PyMongoError"
          /\ UNCHANGED transactions_data
       \/ /\ Parses(sheet)
          /\ transactions_data' = filter_existing(sheet.value, collection)
          /\ ct_pc' = "process"
          /\ UNCHANGED << ct_error, dbFailsLeft >>
    /\ retries' = RetriesAtCall(retries)
    /\ UNCHANGED << sheet, collection, coll0, calls, ct_processed, ct_unprocessed,
                    parsed_data, widx, upserted, writes, prev, ct_output,
                    attemptFailsLeft >>
    /\ UNCHANGED << cevars, auxvars >>

\* every response the endpoint can give to a row
AllResponses == UNION { { Labelled(d) } \cup Failures(d) : d \in Descriptions(SheetLen) }

\* the responses one run of the script may get, one per transaction of the list
Answers(list) ==
    { rs \in [1 .. Len(list) -> AllResponses] :
        \A i \in 1 .. Len(list) : rs[i] \in Endpoint(list[i].Description) }

\* the positions of the list the script puts in its list `kind`
Sorted(list, rs, kind) ==
    SelectSeq([i \in 1 .. Len(list) |-> i], LAMBDA i : ScriptOutcome(rs[i]) = kind)

\* script lines 88-102: the lists the script prints
ScriptProcessed(list, rs) ==
    LET at == Sorted(list, rs, "processed")
    IN [j \in 1 .. Len(at) |-> WithCategory(list[at[j]], rs[at[j]])]

ScriptUnprocessed(list, rs) ==
    LET at == Sorted(list, rs, "unprocessed")
    IN [j \in 1 .. Len(at) |-> Unclassified(list[at[j]], rs[at[j]])]

\* process_transactions, lines 72-118: one attempt.  The container run either fails
\* (after posting some of the requests), is counted, slept on and, at the third
\* failure, given up with RuntimeError; or it prints the two lists.  Lines 24-27
\* and 30-31 hand the processed list to write_to_db
ProcessAttempt ==
    /\ ct_pc = "process"
    /\ \/ /\ attemptFailsLeft > 0
          /\ attemptFailsLeft' = attemptFailsLeft - 1
          /\ \E k \in 0 .. Len(transactions_data) :
                sent' = sent \o [i \in 1 .. k |-> transactions_data[i].Description]
          /\ retries' = retries + 1
          /\ sleeps' = Append(sleeps, attempt_delay)
          /\ now' = now + attempt_delay
          /\ IF retries' < max_retries
             THEN /\ UNCHANGED << ct_pc, ct_error, collection >>
             ELSE /\ ct_pc' = "error"
                  /\ ct_error' = "RuntimeError"
                  /\ collection' = AfterFailure(collection, coll0)
          /\ UNCHANGED << calls, ct_processed, ct_unprocessed, parsed_data, widx,
                          failsLeft >>
       \/ /\ \E rs \in Answers(transactions_data) :
                /\ \A i \in 1 .. Len(transactions_data) : ScriptOutcome(rs[i]) # "raise"
                /\ sent' = sent \o
                      [i \in 1 .. Len(transactions_data) |-> transactions_data[i].Description]
                /\ failsLeft' =
                      [d \in DOMAIN failsLeft |->
                          IF \E i \in 1 .. Len(transactions_data) :
                                /\ transactions_data[i].Description = d
                                /\ rs[i] \in Failures(d)
                          THEN failsLeft[d] - 1
                          ELSE failsLeft[d]]
                /\ parsed_data' = ScriptProcessed(transactions_data, rs)
                /\ ct_unprocessed' = ScriptUnprocessed(transactions_data, rs)
          /\ ct_processed' = IF calls = 0 THEN parsed_data' ELSE ct_processed
          /\ calls' = calls + 1
          /\ widx' = 1
          /\ ct_pc' = "write"
          /\ UNCHANGED << retries, sleeps, now, ct_error, collection, attemptFailsLeft >>
    /\ UNCHANGED << sheet, coll0, transactions_data, upserted, writes, prev,
                    ct_output, dbFailsLeft >>
    /\ UNCHANGED << pc, data, processed, unprocessed, batch, start_time,
                    current_batch_size, api_call_times, response_times, transactions,
                    idx, script_processed, script_unprocessed, response, jitterLeft,
                    output, rounds, invocations >>
    /\ UNCHANGED auxvars

\* write_to_db, lines 130-142: one iteration of the loop; update_one may raise, and
\* what it raises is not caught at lines 143-144 or in spreadsheet
PipeUpsert ==
    /\ ct_pc = "write"
    /\ widx <= Len(parsed_data)
    /\ \/ /\ collection' = Written(collection, parsed_data[widx])
          /\ upserted' = IF Skipped(parsed_data[widx])
                         THEN upserted
                         ELSE Append(upserted, parsed_data[widx])
          /\ widx' = widx + 1
          /\ UNCHANGED << ct_pc, ct_error, dbFailsLeft >>
       \/ /\ ~Skipped(parsed_data[widx])
          /\ dbFailsLeft > 0
          /\ dbFailsLeft' = dbFailsLeft - 1
          /\ collection' = AfterFailure(collection, coll0)
          /\ ct_pc' = "error"
          /\ ct_error' = "PyMongoError"
          /\ UNCHANGED << upserted, widx >>
    /\ UNCHANGED << sheet, coll0, transactions_data, retries, calls, ct_processed,
                    ct_unprocessed, parsed_data, writes, prev, ct_output,
                    attemptFailsLeft >>
    /\ UNCHANGED << cevars, auxvars >>

\* line 145 and, in the loop, line 32: write_to_db returns and the round's records
\* are added to processed
PipeWritten ==
    /\ ct_pc = "write"
    /\ widx > Len(parsed_data)
    /\ ct_processed' = IF calls > 1 THEN Extend(ct_processed, parsed_data) ELSE ct_processed
    /\ ct_pc' = "looptest"
    /\ UNCHANGED << sheet, collection, coll0, transactions_data, retries, calls,
                    ct_unprocessed, parsed_data, widx, upserted, writes, prev,
                    ct_output, ct_error, attemptFailsLeft, dbFailsLeft >>
    /\ UNCHANGED << cevars, auxvars >>

\* lines 29-30: another round on what the last one left unprocessed
PipeRetry ==
    /\ ct_pc = "looptest"
    /\ WhileUnprocessed(ct_unprocessed)
    /\ transactions_data' = ct_unprocessed
    /\ retries' = RetriesAtCall(retries)
    /\ ct_pc' = "process"
    /\ UNCHANGED << sheet, collection, coll0, calls, ct_processed, ct_unprocessed,
                    parsed_data, widx, upserted, writes, prev, ct_output, ct_error,
                    attemptFailsLeft, dbFailsLeft >>
    /\ UNCHANGED << cevars, auxvars >>

\* line 34
PipeReturn ==
    /\ ct_pc = "looptest"
    /\ ~WhileUnprocessed(ct_unprocessed)
    /\ ct_output' = ct_processed
    /\ ct_pc' = "done"
    /\ UNCHANGED << sheet, collection, coll0, transactions_data, retries, calls,
                    ct_processed, ct_unprocessed, parsed_data, widx, upserted, writes,
                    prev, ct_error, attemptFailsLeft, dbFailsLeft >>
    /\ UNCHANGED << cevars, auxvars >>

NextPipe ==
    FilterExisting \/ ProcessAttempt \/ PipeUpsert \/ PipeWritten \/ PipeRetry \/ PipeReturn

\* one run of spreadsheet
PipeSpec == InitPipe /\ [][NextPipe]_vars

\* one run of categorize, or one run of spreadsheet
IntakeSpec == (InitLive \/ InitPipe) /\ [][Next \/ NextPipe]_vars

----------------------------------------------------------------------------
(* authenticate of writeToMongo and of filterForNewTransactions *)

\* calls of authenticate followed
MaxAuthCalls == 3

\* max_retries of authenticate
auth_max_retries == 3

\* how pymongo.MongoClient(connection_string) and the two subscripts may end: with the
\* collection, or raising AutoReconnect, OperationFailure or an error of another class
Connections == { "collection", "AutoReconnect", "OperationFailure", "ConfigurationError" }

\* mutant: the last retry is not noticed
RetriesExhaustedNever(r) == FALSE

\* line 75: retries == max_retries
RetriesExhausted(r) == r = auth_max_retries

InitAuth ==
    /\ CategorizeOff
    /\ failsLeft = [d \in Descriptions(0) |-> 0]
    /\ ct_pc = "off"
    /\ sheet = Malformed
    /\ collection = << >>
    /\ coll0 = << >>
    /\ PipelineIdle
    /\ attemptFailsLeft = 0
    /\ dbFailsLeft = 0
    /\ au_pc = "idle"
    /\ au_retries = 0
    /\ au_attempts = << >>
    /\ au_result = "none"
    /\ au_calls = << >>
    /\ ScriptOff

\* lines 66-67: authenticate is called; max_retries = 3, retries = 0
AuthCall ==
    /\ au_pc \in { "idle", "returned", "raised" }
    /\ Len(au_calls) < MaxAuthCalls
    /\ au_pc' = "loop"
    /\ au_retries' = 0
    /\ au_attempts' = << >>
    /\ au_result' = "none"
    /\ UNCHANGED au_calls
    /\ UNCHANGED << cevars, ctvars, tsvars >>

\* lines 68-78: the loop test and one iteration.  A raise inside the handler of
\* AutoReconnect is not caught by the handler of OperationFailure beside it; an
\* exception of another class leaves authenticate as it is; after the loop the
\* function would end without a return statement and yield None
AuthStep ==
    /\ au_pc = "loop"
    /\ IF au_retries < auth_max_retries
       THEN \E c \in Connections :
              /\ au_attempts' = Append(au_attempts, c)
              /\ au_retries' = IF c = "AutoReconnect" THEN au_retries + 1 ELSE au_retries
              /\ au_result' =
                    CASE c = "collection" -> "collection"
                      [] c = "AutoReconnect" ->
                            IF RetriesExhausted(au_retries') THEN "OperationFailure" ELSE "none"
                      [] OTHER -> c
              /\ au_pc' =
                    CASE c = "collection" -> "returned"
                      [] c = "AutoReconnect" ->
                            IF RetriesExhausted(au_retries') THEN "raised" ELSE "loop"
                      [] OTHER -> "raised"
       ELSE /\ au_result' = "None"
            /\ au_pc' = "returned"
            /\ UNCHANGED << au_attempts, au_retries >>
    /\ au_calls' = IF au_pc' = "loop" THEN au_calls ELSE Append(au_calls, au_result')
    /\ UNCHANGED << cevars, ctvars, tsvars >>

NextAuth == AuthCall \/ AuthStep

\* authenticate called up to MaxAuthCalls times
AuthSpec == InitAuth /\ [][NextAuth]_vars

----------------------------------------------------------------------------
(* The classifier script of test.py *)

\* transactions handed to the script, and model-loading answers the endpoint may give
TsLen == 2
TsLoading == 6

\* max_retries, retry_delay, batch_size and batch_time of the script
script_max_retries == 5
script_retry_delay == 10
batch_size == 30
batch_time == 60

\* the wait the service reports with a model-loading answer
EstimatedTime == 20

\* error texts that contain 'currently loading'
LoadingErrors == { "Model facebook/bart-large-mnli is currently loading" }

\* the answers that say the model is loading: with success status, with or without
\* an estimate, and with status 503
LoadingResponses ==
    { [status |-> 200, data |-> [error |-> e, estimated_time |-> EstimatedTime]] :
            e \in LoadingErrors }
    \cup { [status |-> 200, data |-> [error |-> e]] : e \in LoadingErrors }
    \cup { [status |-> 503, data |-> [error |-> e, estimated_time |-> EstimatedTime]] :
            e \in LoadingErrors }

\* what the endpoint may answer the script of test.py for `description`
ScriptEndpoint(description) ==
    { Labelled(description) }
    \cup { [status |-> 200, data |-> [labels |-> Ranking(description)]],
           [status |-> 200, data |-> [error |-> "unexpected"]],
           [status |-> 429, data |-> [error |-> "rate limit reached"]],
           [status |-> 500, data |-> [error |-> "internal error"]] }
    \cup (IF loadingLeft > 0 THEN LoadingResponses ELSE { })

\* 'error' in hf_data and 'currently loading' in hf_data['error']
CurrentlyLoading(r) == "error" \in DOMAIN r.data /\ r.data.error \in LoadingErrors

\* hf_data.get('estimated_time', retry_delay)
estimated_time(r) ==
    IF "estimated_time" \in DOMAIN r.data THEN r.data.estimated_time ELSE script_retry_delay

\* lines 95-118: what the script does on response r: "exit" (sys.exit(1)), "wait"
\* (sleep and try again) or "break" (Category set)
OnResponse(r) ==
    IF r.status = 429 THEN "exit"
    ELSE IF r.status # 200 THEN "exit"
    ELSE IF CurrentlyLoading(r) THEN "wait"
    ELSE IF HasLabels(r) THEN "break"
    ELSE "exit"

InitScript ==
    /\ CategorizeOff
    /\ failsLeft = [d \in Descriptions(0) |-> 0]
    /\ ct_pc = "off"
    /\ sheet = Malformed
    /\ collection = << >>
    /\ coll0 = << >>
    /\ PipelineIdle
    /\ attemptFailsLeft = 0
    /\ dbFailsLeft = 0
    /\ AuthOff
    /\ ts_pc = "loop"
    /\ \E n \in 0 .. TsLen : ts_transactions = Payload(n).value
    /\ ts_idx = 1
    /\ attempts = 0
    /\ request_count = 0
    /\ ts_start_time = 0
    /\ ts_now = 0
    /\ ts_sent = << >>
    /\ ts_sent_at = << >>
    /\ ts_response = NoResponse
    /\ ts_sleeps = << >>
    /\ ts_output = << >>
    /\ loadingLeft = TsLoading

\* lines 120-129, after the while loop: the transaction is counted; after batch_size
\* of them the script sleeps until batch_time has passed since start_time
AfterTransaction(clock) ==
    /\ ts_idx' = ts_idx + 1
    /\ attempts' = 0
    /\ IF request_count + 1 >= batch_size
       THEN LET elapsed_time == clock - ts_start_time
                sleep_time == batch_time - elapsed_time
            IN /\ ts_now' = IF elapsed_time < batch_time THEN clock + sleep_time ELSE clock
               /\ ts_sleeps' = IF elapsed_time < batch_time
                               THEN Append(ts_sleeps, sleep_time)
                               ELSE ts_sleeps
               /\ ts_start_time' = ts_now'
               /\ request_count' = 0
       ELSE /\ request_count' = request_count + 1
            /\ ts_now' = clock
            /\ UNCHANGED << ts_sleeps, ts_start_time >>

\* lines 87-118: one iteration of the while loop: a request and what follows from
\* the response
ScriptRequest ==
    /\ ts_pc = "loop"
    /\ ts_idx <= Len(ts_transactions)
    /\ attempts < script_max_retries
    /\ LET transaction == ts_transactions[ts_idx]
       IN \E r \in ScriptEndpoint(transaction.Description) :
            /\ ts_sent' = Append(ts_sent, transaction.Description)
            /\ ts_sent_at' = Append(ts_sent_at, ts_now)
            /\ ts_response' = r
            /\ loadingLeft' = IF r \in LoadingResponses THEN loadingLeft - 1 ELSE loadingLeft
            /\ CASE OnResponse(r) = "exit" ->
                        /\ ts_pc' = "exit"
                        /\ UNCHANGED << ts_transactions, ts_idx, attempts, request_count,
                                        ts_start_time, ts_now, ts_sleeps >>
                 [] OnResponse(r) = "wait" ->
                        /\ ts_sleeps' = Append(ts_sleeps, estimated_time(r))
                        /\ ts_now' = ts_now + estimated_time(r)
                        /\ attempts' = attempts + 1
                        /\ UNCHANGED << ts_pc, ts_transactions, ts_idx, request_count,
                                        ts_start_time >>
                 [] OnResponse(r) = "break" ->
                        /\ ts_transactions' =
                                [ts_transactions EXCEPT ![ts_idx] = WithCategory(@, r)]
                        /\ AfterTransaction(ts_now)
                        /\ UNCHANGED ts_pc
    /\ UNCHANGED ts_output
    /\ UNCHANGED << cevars, ctvars, auvars >>

\* line 87 is false after max_retries model-loading answers: the while loop ends
\* without a Category, and lines 120-129 follow
ScriptGiveUp ==
    /\ ts_pc = "loop"
    /\ ts_idx <= Len(ts_transactions)
    /\ ~(attempts < script_max_retries)
    /\ AfterTransaction(ts_now)
    /\ UNCHANGED << ts_pc, ts_transactions, ts_sent, ts_sent_at, ts_response, ts_output,
                    loadingLeft >>
    /\ UNCHANGED << cevars, ctvars, auvars >>

\* line 132: print(json.dumps(transactions))
ScriptPrint ==
    /\ ts_pc = "loop"
    /\ ts_idx > Len(ts_transactions)
    /\ ts_output' = ts_transactions
    /\ ts_pc' = "printed"
    /\ UNCHANGED << ts_transactions, ts_idx, attempts, request_count, ts_start_time,
                    ts_now, ts_sent, ts_sent_at, ts_response, ts_sleeps, loadingLeft >>
    /\ UNCHANGED << cevars, ctvars, auvars >>

NextScript == ScriptRequest \/ ScriptGiveUp \/ ScriptPrint

\* the script of test.py run on up to TsLen transactions
ScriptSpec == InitScript /\ [][NextScript]_vars

\* transactions of a long run of the script, and the model-loading answers it gets
RateLen == 31
RateLoading == 1

\* the script of test.py started on a list longer than one group of batch_size, with
\* few model-loading answers to come, or on one transaction with as many of them as
\* the script tries
InitRate ==
    /\ CategorizeOff
    /\ failsLeft = [d \in Descriptions(0) |-> 0]
    /\ ct_pc = "off"
    /\ sheet = Malformed
    /\ collection = << >>
    /\ coll0 = << >>
    /\ PipelineIdle
    /\ attemptFailsLeft = 0
    /\ dbFailsLeft = 0
    /\ AuthOff
    /\ ts_pc = "loop"
    /\ \E n \in { 1, RateLen } :
            /\ ts_transactions = Payload(n).value
            /\ loadingLeft = IF n = 1 THEN script_max_retries ELSE RateLoading
    /\ ts_idx = 1
    /\ attempts = 0
    /\ request_count = 0
    /\ ts_start_time = 0
    /\ ts_now = 0
    /\ ts_sent = << >>
    /\ ts_sent_at = << >>
    /\ ts_response = NoResponse
    /\ ts_sleeps = << >>
    /\ ts_output = << >>

\* the script of test.py run on one or on RateLen transactions
RateSpec == InitRate /\ [][NextScript]_vars

\* spreadsheet of test.py at line 147: the sheet is fetched and the collection holds
\* what earlier runs stored
InitVariant ==
    /\ CategorizeOff
    /\ failsLeft = [d \in Descriptions(0) |-> 0]
    /\ ct_pc = "off"
    /\ sheet \in { SheetPayload(n) : n \in 0 .. SheetLen } \cup { Malformed }
    /\ collection \in { Stored(S) : S \in SUBSET (1 .. SheetLen) }
    /\ coll0 = collection
    /\ PipelineIdle
    /\ attemptFailsLeft = 0
    /\ dbFailsLeft \in 0 .. DbFails
    /\ AuthOff
    /\ ts_pc = "start"
    /\ ts_transactions = << >>
    /\ ts_idx = 1
    /\ attempts = 0
    /\ request_count = 0
    /\ ts_start_time = 0
    /\ ts_now = 0
    /\ ts_sent = << >>
    /\ ts_sent_at = << >>
    /\ ts_response = NoResponse
    /\ ts_sleeps = << >>
    /\ ts_output = << >>
    /\ loadingLeft = TsLoading

\* test.py, filter_existing, lines 191-193: the rows whose Transaction ID is not stored
variant_filter_existing(parsed, documents) ==
    LET existing_transactions ==
            { documents[i]["Transaction ID"] : i \in 1 .. Len(documents) }
    IN SelectSeq(parsed,
                 LAMBDA transaction : transaction["Transaction ID"] \notin existing_transactions)

\* test.py, lines 147-148: filter_existing (authenticate may raise, json.loads raises
\* on a sheet without values), then the script is started on the new rows
VariantFilter ==
    /\ ts_pc = "start"
    /\ \/ /\ dbFailsLeft > 0
          /\ dbFailsLeft' = dbFailsLeft - 1
          /\ ts_pc' = "error"
          /\ UNCHANGED ts_transactions
       \/ /\ ~Parses(sheet)
          /\ ts_pc' = "error"
          /\ UNCHANGED << ts_transactions, dbFailsLeft >>
       \/ /\ Parses(sheet)
          /\ ts_transactions' = variant_filter_existing(sheet.value, collection)
          /\ ts_pc' = "loop"
          /\ UNCHANGED dbFailsLeft
    /\ UNCHANGED << ts_idx, attempts, request_count, ts_start_time, ts_now, ts_sent,
                    ts_sent_at, ts_response, ts_sleeps, ts_output, loadingLeft >>
    /\ UNCHANGED << sheet, collection, coll0, transactions_data, retries, calls,
                    ct_processed, ct_unprocessed, parsed_data, widx, upserted, writes,
                    prev, ct_output, ct_error, ct_pc, attemptFailsLeft >>
    /\ UNCHANGED << cevars, auvars >>

\* test.py, write_to_db, lines 168-181: the collection after the loop has gone through
\* the first k records of the list
RECURSIVE write_to_db_variant(_, _, _)
write_to_db_variant(documents, list, k) ==
    IF k = 0 THEN documents
    ELSE Written(write_to_db_variant(documents, list, k - 1), list[k])

\* test.py, lines 149-150: authenticate, then write_to_db parses what the script
\* printed and upserts every record of it; an exception of the driver ends the run
\* with the records before it written
VariantWrite ==
    /\ ts_pc = "printed"
    /\ \/ /\ collection' = write_to_db_variant(collection, ts_output, Len(ts_output))
          /\ ts_pc' = "written"
          /\ UNCHANGED dbFailsLeft
       \/ /\ dbFailsLeft > 0
          /\ dbFailsLeft' = dbFailsLeft - 1
          /\ \E k \in 0 .. Len(ts_output) :
                /\ k < Len(ts_output) => ~Skipped(ts_output[k + 1])
                /\ collection' = write_to_db_variant(collection, ts_output, k)
          /\ ts_pc' = "error"
    /\ UNCHANGED << ts_transactions, ts_idx, attempts, request_count, ts_start_time,
                    ts_now, ts_sent, ts_sent_at, ts_response, ts_sleeps, ts_output,
                    loadingLeft >>
    /\ UNCHANGED << sheet, coll0, transactions_data, retries, calls,
                    ct_processed, ct_unprocessed, parsed_data, widx, upserted, writes,
                    prev, ct_output, ct_error, ct_pc, attemptFailsLeft >>
    /\ UNCHANGED << cevars, auvars >>

NextVariant == VariantFilter \/ ScriptRequest \/ ScriptGiveUp \/ ScriptPrint \/ VariantWrite

\* one run of spreadsheet of test.py
VariantSpec == InitVariant /\ [][NextVariant]_vars

----------------------------------------------------------------------------
(* Properties *)

HasCategory(t) == "Category" \in DOMAIN t

\* the record t without the fields outside S
Restrict(t, S) == [f \in S |-> t[f]]

\* how many records of s are the input record t, possibly with a Category added
Occurrences(t, s) ==
    Cardinality({ j \in 1 .. Len(s) : Restrict(s[j], DOMAIN t) = t })

\* s holds every input record exactly once and nothing else
HoldsInputOnce(s) ==
    /\ Len(s) = Len(data.value)
    /\ \A i \in 1 .. Len(data.value) : Occurrences(data.value[i], s) = 1

\* C1: with an endpoint that fails each record only finitely often, categorize on a
\* parsable input list terminates, and its output holds every input record exactly
\* once, each with a Category.
C1_Completeness ==
    (pc = "idle" /\ data.valid)
        ~> (/\ pc = "done"
            /\ HoldsInputOnce(output)
            /\ \A j \in 1 .. Len(output) : HasCategory(output[j]))

\* a run over a full-length input in which a record used up its failures has returned
C1_Witness ==
    /\ pc = "done"
    /\ Len(output) = MaxLen
    /\ \E d \in Descriptions(MaxLen) : failsLeft[d] = 0

\* C2: at every round boundary the records of processed and of the queue together
\* are the input records, each exactly once, so at termination processed holds
\* exactly the input records.
C2_Conservation ==
    /\ pc \in { "loop", "sleeping", "done" } => HoldsInputOnce(processed \o unprocessed)
    /\ pc = "done" => unprocessed = << >> /\ HoldsInputOnce(processed)

\* a round whose batch was a strict prefix of the queue ended with its record
\* classified and the untouched records still queued
C2_Witness ==
    /\ pc = "sleeping"
    /\ script_processed # << >>
    /\ script_unprocessed = << >>
    /\ unprocessed # << >>
    /\ processed = script_processed

Last(s) == s[Len(s)]

\* the set of elements of the sequence s
Range(s) == { s[i] : i \in 1 .. Len(s) }

\* the responses named transient failures: a non-success status, a success status
\* without the labels or without the scores, a model-is-loading answer
NonSuccess(r) == r.status >= 400
LacksFields(r) == r.status < 400 /\ ~({ "labels", "scores" } \subseteq DOMAIN r.data)
ModelLoading(r) == "estimated_time" \in DOMAIN r.data
TransientFailure(r) == NonSuccess(r) \/ LacksFields(r) \/ ModelLoading(r)

C4_BatchSizeFloor ==
    /\ current_batch_size >= 1
    /\ pc = "calling" => Len(batch) >= 1

\* a round whose batch size stayed at 1 because of the floor: the previous round
\* already ran with 1 and the call window was still saturated
C4_Witness ==
    /\ pc = "calling"
    /\ current_batch_size = 1
    /\ Len(response_times) > initial_batch_size
    /\ Len(api_call_times) > 1

\* the largest and the smallest element of a non-empty sequence of numbers
Newest(s) == CHOOSE x \in Range(s) : \A y \in Range(s) : y <= x
Oldest(s) == CHOOSE x \in Range(s) : \A y \in Range(s) : x <= y

WindowSaturated ==
    Len(api_call_times) >= 2 /\ Newest(api_call_times) - Oldest(api_call_times) < Window

LatencyLow ==
    /\ Len(response_times) >= LatencySamples
    /\ Sum(LastN(response_times, LatencySamples)) < LatencySamples * LatencyLimit

\* C5: the batch size changes only when a round starts, before the batch is drawn:
\* to max(1, b - 1) when the window is saturated, otherwise to b + 1 when the mean of
\* the last 5 latencies is under 1 s, otherwise not at all; the decrease has
\* precedence and the size moves by at most 1.
C5_AdjustPolicy ==
    [][ IF pc = "loop" /\ pc' = "calling"
        THEN /\ current_batch_size' =
                    IF WindowSaturated
                    THEN (IF current_batch_size - 1 >= 1 THEN current_batch_size - 1 ELSE 1)
                    ELSE IF LatencyLow THEN current_batch_size + 1
                    ELSE current_batch_size
             /\ current_batch_size' - current_batch_size \in { -1, 0, 1 }
             /\ Len(batch') = Min(current_batch_size', Len(unprocessed))
        ELSE current_batch_size' = current_batch_size ]_vars

\* a round has just started in which the batch size grew: the window was not
\* saturated and the last 5 latencies were low
C5_Witness ==
    /\ pc = "calling"
    /\ idx = 1
    /\ ~WindowSaturated
    /\ LatencyLow
    /\ current_batch_size = initial_batch_size - 3

\* the records of the batch that the round did not classify, in batch order
FailedOfBatch ==
    SelectSeq(batch, LAMBDA t : Occurrences(t, script_processed) = 0)

\* C6: the queue after a round is the failed records of the batch, in batch order,
\* followed by the untouched remainder; the batch of a round is the first
\* min(batch size, length of the queue) records of the queue.
C6_RetryOrdering ==
    [][ /\ (pc = "calling" /\ pc' # "calling")
             => unprocessed' = FailedOfBatch \o unprocessed
        /\ (pc = "loop" /\ pc' = "calling")
             => /\ Len(batch') = Min(current_batch_size', Len(unprocessed))
                /\ unprocessed = batch' \o unprocessed' ]_vars

\* a round ended with failed records in front of records the batch did not reach
C6_Witness ==
    /\ pc = "sleeping"
    /\ script_unprocessed # << >>
    /\ Len(unprocessed) > Len(script_unprocessed)
    /\ unprocessed[1] = script_unprocessed[1]

Position(t, s) ==
    IF Occurrences(Restrict(t, { "Description", "Amount" }), s) = 0 THEN 0
    ELSE CHOOSE i \in 1 .. Len(s) :
            Restrict(s[i], { "Description", "Amount" }) = Restrict(t, { "Description", "Amount" })

\* s keeps the relative order its records have in the sequence of
InOrderOf(s, of) ==
    \A i, j \in 1 .. Len(s) : i < j => Position(s[i], of) < Position(s[j], of)

\* C8: the two lists of the classification client partition the records handled so
\* far: each record is in exactly one list, both lists keep the batch order, a
\* classified record is its input plus Category, the top-ranked label of its
\* response, and an unclassified record is returned as it was.
C8_ClientPartition ==
    pc = "calling" =>
        LET handled == Take(transactions, idx - 1)
        IN /\ Len(script_processed) + Len(script_unprocessed) = Len(handled)
           /\ \A i \in 1 .. Len(handled) :
                Occurrences(handled[i], script_processed)
                    + Occurrences(handled[i], script_unprocessed) = 1
           /\ InOrderOf(script_processed, handled)
           /\ InOrderOf(script_unprocessed, handled)
           /\ \A i \in 1 .. Len(script_unprocessed) :
                script_unprocessed[i] \in Range(handled)
           /\ \A i \in 1 .. Len(script_processed) :
                /\ DOMAIN script_processed[i] = { "Description", "Amount", "Category" }
                /\ script_processed[i].Category
                       = Head(Ranking(script_processed[i].Description))
           /\ (idx > 1 /\ ~TransientFailure(response))
                => Last(script_processed).Category = Head(response.data.labels)

\* the client is through a full-length batch with both lists non-empty, the record
\* whose ranking starts with the second label among the classified
C8_Witness ==
    /\ pc = "calling"
    /\ idx > Len(transactions)
    /\ Len(transactions) = MaxLen
    /\ script_unprocessed # << >>
    /\ \E i \in 1 .. Len(script_processed) : script_processed[i].Category = "Snacks"
    /\ \E i \in 1 .. Len(script_processed) : script_processed[i].Category = "Grocery"

\* C9: a non-success status, a success response without the labels or the scores
\* field, and a model-is-loading response each put the record, unchanged, on the
\* unclassified list; the script goes on and categorize does not fail.
C9_FailuresRouted ==
    [][ (pc = "calling" /\ idx' = idx + 1 /\ TransientFailure(response'))
            => /\ pc' = "calling"
               /\ script_unprocessed' = Append(script_unprocessed, transactions[idx])
               /\ script_processed' = script_processed ]_vars

\* the script has put a record on the unclassified list after a success response
\* that lacks the scores, and went on to a model-is-loading response
C9_Witness ==
    /\ pc = "calling"
    /\ idx > 2
    /\ ModelLoading(response)
    /\ Len(script_unprocessed) >= 2
    /\ failsLeft[transactions[idx - 1].Description] < MaxFails

\* C10: the script posts one request per record of the batch, in batch order,
\* whatever the responses are: n requests for a batch of n records.
C10_OneRequestPerRecord ==
    /\ pc = "calling" =>
         sent = [i \in 1 .. idx - 1 |-> transactions[i].Description]
    /\ (pc \in { "sleeping", "loop", "done" } /\ response_times # << >>)
         => sent = [i \in 1 .. Len(batch) |-> batch[i].Description]

\* the script is through a full-length batch in which a request was answered with
\* model-is-loading
C10_Witness ==
    /\ pc = "calling"
    /\ idx > Len(transactions)
    /\ Len(sent) = MaxLen
    /\ ModelLoading(response)

----------------------------------------------------------------------------
(* Pacing of the rounds *)

\* a round ends: the call of process_batch has returned and lines 72-83 have run
RoundEnds == pc = "calling" /\ pc' \in { "sleeping", "loop" }

\* C11: categorize sleeps retry_delay seconds after a round exactly when the queue
\* is non-empty after that round, and at no other point, so that a call of k >= 1
\* rounds sleeps k - 1 times and a call whose first round classifies everything
\* runs one round and never sleeps.
C11_SleepBetweenRounds ==
    /\ [][ /\ RoundEnds => /\ (pc' = "sleeping") <=> (unprocessed' # << >>)
                           /\ sleeps' = IF unprocessed' # << >>
                                        THEN Append(sleeps, retry_delay)
                                        ELSE sleeps
           /\ ~RoundEnds => sleeps' = sleeps
           /\ pc = "sleeping" => now' - now >= retry_delay ]_vars
    /\ [](pc = "done" => Len(sleeps) = IF rounds = 0 THEN 0 ELSE rounds - 1)
    /\ [](rounds = 1 /\ pc = "loop" /\ unprocessed = << >> => sleeps = << >>)

C11_Witness ==
    /\ pc = "done"
    /\ rounds >= 3
    /\ Len(sleeps) = rounds - 1
    /\ output # << >>

----------------------------------------------------------------------------
(* Order of the output *)

\* the descriptions of a list of records, in order
DescriptionsOf(list) == [i \in 1 .. Len(list) |-> list[i].Description]

\* the records the endpoint has failed at least once in this run
FailedSoFar == { d \in DOMAIN failsLeft : failsLeft[d] < ScenarioFails }

\* the descriptions of the input other than the second and the fourth, in input
\* order: << 1, 3, 5 >> for the five records of the scenario
FirstRoundOutput ==
    SelectSeq(DescriptionsOf(data.value), LAMBDA d : d \notin { 2, 4 })

\* C12: the output is the concatenation, in round order, of what each round
\* classified; with five records of which the second and the fourth fail in the
\* first round only, the second round's batch is those two in input order and the
\* output order is first, third, fifth, second, fourth.
C12_OutputInRoundOrder ==
    /\ [][ /\ RoundEnds => processed' = processed \o script_processed
           /\ ~RoundEnds /\ pc # "idle" => processed' = processed
           /\ pc' = "done" => output' = processed ]_vars
    /\ [](rounds = 0 => processed = << >>)
    /\ [](FailedSoFar = { 2, 4 } /\ rounds = 1 /\ pc = "sleeping"
            => /\ DescriptionsOf(processed) = FirstRoundOutput
               /\ unprocessed = << Txn(2), Txn(4) >>)
    /\ [](FailedSoFar = { 2, 4 } /\ rounds = 2 => batch = << Txn(2), Txn(4) >>)
    /\ [](FailedSoFar = { 2, 4 } /\ rounds = 2 /\ pc = "done"
            => DescriptionsOf(output) = FirstRoundOutput \o << 2, 4 >>)

C12_Witness ==
    /\ pc = "done"
    /\ FailedSoFar = { 2, 4 }
    /\ rounds = 2
    /\ batch = << Txn(2), Txn(4) >>
    /\ FirstRoundOutput = << 1, 3, 5 >>
    /\ DescriptionsOf(output) = << 1, 3, 5, 2, 4 >>

----------------------------------------------------------------------------
(* Degenerate inputs *)

\* the payload is a parsable, empty list
EmptyInput(d) == d.valid /\ d.value = << >>

\* a step of the running call of categorize, as opposed to a new call
CategorizeStep == pc # "done"

\* C13: on a parsable empty list categorize returns an empty output at once: no
\* round, no classifier call and no sleep, and the batch size and both telemetry
\* lists are what they were before the call.
C13_EmptyInput ==
    /\ [][ EmptyInput(data) /\ CategorizeStep
             => /\ UNCHANGED << current_batch_size, api_call_times, response_times,
                                sent, now >>
                /\ rounds' = 0
                /\ sleeps' = << >>
                /\ processed' = << >>
                /\ pc = "idle" => pc' = "loop"
                /\ pc = "loop" => pc' = "done" /\ output' = << >> ]_vars
    /\ [](EmptyInput(data) => pc \in { "idle", "loop", "done" })

C13_Witness ==
    /\ EmptyInput(data)
    /\ pc = "done"
    /\ output = << >>
    /\ rounds = 0
    /\ invocations = 2
    /\ Len(response_times) > 1
    /\ api_call_times # << >>

----------------------------------------------------------------------------
(* Telemetry *)

\* C15: every call of categorize starts with an empty call-time history, an empty
\* latency history and batch size 50, whatever earlier calls in the same process
\* left behind, and so the first round of every call is cut with batch size 50.
C15_FreshTelemetry ==
    /\ pc = "idle" => /\ api_call_times = << >>
                      /\ response_times = << >>
                      /\ current_batch_size = initial_batch_size
    /\ rounds = 1 => current_batch_size = initial_batch_size

\* C16: after every round the latency history holds at most LatencySamples
\* entries, the durations of the most recent rounds.
C16_LatencyHistoryBounded ==
    /\ Len(response_times) <= LatencySamples
    /\ Len(response_times) <= rounds

\* C17: after the telemetry step of every round every timestamp of the call-time
\* history is less than Window seconds older than the time of pruning, and the
\* completion timestamp of the round just finished is the last of them.
C17_CallTimesWithinWindow ==
    [][ RoundEnds => /\ api_call_times' # << >>
                     /\ Last(api_call_times') = now'
                     /\ \A i \in 1 .. Len(api_call_times') :
                            now' - api_call_times'[i] < Window
                     /\ \A i \in 1 .. Len(api_call_times) :
                            now' - api_call_times[i] < Window
                                => api_call_times[i] \in Range(api_call_times') ]_vars

C17_Witness ==
    /\ pc = "sleeping"
    /\ Len(api_call_times) > 1
    /\ Len(response_times) > Len(api_call_times)
    /\ Last(api_call_times) = now
    /\ now - api_call_times[1] = Window - retry_delay

----------------------------------------------------------------------------
(* Sequencing of the rounds *)

\* calls of process_batch that have started and not yet had their telemetry recorded
InFlight == rounds - Len(response_times)

\* C18: the rounds of one call of categorize are strictly sequential: at most one
\* call of process_batch is in flight, and the batch size of the next round is
\* computed only when the previous round's call has returned and its telemetry
\* has been recorded.
C18_RoundsSequential ==
    /\ [](InFlight = IF pc = "calling" THEN 1 ELSE 0)
    /\ [][ rounds' # rounds \/ current_batch_size' # current_batch_size
             => /\ InFlight = 0
                /\ rounds' = rounds + 1
                /\ rounds > 0 => Last(api_call_times) <= now - retry_delay
                /\ pc' = "calling" ]_vars

C18_Witness ==
    /\ pc = "calling"
    /\ rounds > 2
    /\ unprocessed # << >>
    /\ InFlight = 1
    /\ idx > 1

----------------------------------------------------------------------------
(* Upsert by Transaction ID *)

\* the key a record is written under: its Transaction ID, None when it has none
IdOf(transaction) == Get(transaction, "Transaction ID")

\* the keys of the records of a list that are written (the empty record is not)
WrittenIds(list) == { IdOf(list[i]) : i \in { j \in 1 .. Len(list) : ~Skipped(list[j]) } }

\* the last record of the list written under the key id
LastWith(list, id) ==
    LET at == { i \in 1 .. Len(list) : ~Skipped(list[i]) /\ IdOf(list[i]) = id }
    IN list[CHOOSE i \in at : \A j \in at : j <= i]

\* the positions of the documents stored under the key id
DocsWith(documents, id) == { i \in 1 .. Len(documents) : IdOf(documents[i]) = id }

\* a finished write left one document per written key, carrying the fields `kept`
\* of the last record written under that key, and left every other document alone
UpsertedById(kept(_)) ==
    /\ \A id \in WrittenIds(parsed_data) :
        /\ Cardinality(DocsWith(collection, id)) = 1
        /\ LET document == collection[CHOOSE i \in DocsWith(collection, id) : TRUE]
               record == LastWith(parsed_data, id)
           IN \A key \in kept(record) : key \in DOMAIN document /\ document[key] = record[key]
    /\ \A i \in 1 .. Len(coll0) :
        /\ i <= Len(collection)
        /\ IdOf(coll0[i]) \notin WrittenIds(parsed_data) => collection[i] = coll0[i]
    /\ \A i \in 1 .. Len(collection) : IdOf(collection[i]) \in
            WrittenIds(parsed_data) \cup { IdOf(coll0[j]) : j \in 1 .. Len(coll0) }

\* a second write of the list just written ends with the collection the first left
SecondWriteChangesNothing ==
    [][ ct_pc = "write" /\ ct_pc' = "written" /\ writes >= 1 /\ parsed_data = prev.list
          => collection' = prev.result ]_vars

AllFields(record) == DOMAIN record
NamedFields(record) == DOMAIN record \ { "" }

----------------------------------------------------------------------------
(* Failures in spreadsheet *)

\* the collection holds the record: a document with its Transaction ID and Category
Persisted(record) ==
    \E i \in 1 .. Len(collection) :
        /\ IdOf(collection[i]) = IdOf(record)
        /\ HasCategory(collection[i])
        /\ collection[i].Category = record.Category

\* C19: in spreadsheet a failure of a database write, and a classification round
\* that fails for good, end the call with an error and without a result, and every
\* record upserted before the failure stays in the collection with its Category.
C19_FailurePropagatesNoRollback ==
    /\ [][ /\ dbFailsLeft' < dbFailsLeft \/ retries' >= max_retries
                => ct_pc' = "error" /\ ct_error' # "none"
           /\ ct_pc' = "error"
                => /\ collection' = collection
                   /\ ct_output' = << >>
           /\ ct_pc # "error" ]_vars
    /\ [](\A i \in 1 .. Len(upserted) : Persisted(upserted[i]))
    /\ [](ct_pc = "error" <=> ct_error # "none")

C19_Witness ==
    /\ ct_pc = "error"
    /\ ct_error = "PyMongoError"
    /\ calls > 1
    /\ upserted # << >>
    /\ Len(collection) > Len(coll0)
    /\ \A i \in 1 .. Len(upserted) : Persisted(upserted[i])

----------------------------------------------------------------------------
(* Unparsable input *)

\* C14: a payload that is not JSON ends the call at once with the parse error: no
\* request goes to the classifier, nothing is retried, nothing sleeps and nothing
\* is written to the collection; batch size and telemetry stay as they were.
C14_UnparsableInputIsFatal ==
    /\ [](pc # "off" /\ ~data.valid
            => /\ pc \in { "idle", "error" }
               /\ rounds = 0
               /\ sent = << >>
               /\ sleeps = << >>
               /\ processed = << >>
               /\ output = << >>
               /\ api_call_times = << >>
               /\ response_times = << >>
               /\ current_batch_size = initial_batch_size
               /\ now = 0)
    /\ [](ct_pc # "off" /\ ~sheet.valid
            => /\ ct_pc \in { "start", "error" }
               /\ ct_pc = "error" => ct_error = "JSONDecodeError"
               /\ sent = << >>
               /\ sleeps = << >>
               /\ retries = 0
               /\ calls = 0
               /\ upserted = << >>
               /\ collection = coll0
               /\ ct_output = << >>
               /\ now = 0)
    /\ [][ (pc = "idle" /\ ~data.valid => pc' = "error")
           /\ (ct_pc = "start" /\ ~sheet.valid => ct_pc' = "error") ]_vars

C14_Witness ==
    /\ ct_pc = "error"
    /\ ~sheet.valid
    /\ ct_error = "JSONDecodeError"
    /\ collection # << >>
    /\ collection = coll0
    /\ sent = << >>

----------------------------------------------------------------------------
(* The filter for new transactions *)

\* the Transaction IDs stored in the collection
StoredIds(documents) == { IdOf(documents[i]) : i \in 1 .. Len(documents) }

\* the transactions of the list whose id is not stored, in the order of the list
NewOf(list, documents) ==
    LET keep == { i \in 1 .. Len(list) : IdOf(list[i]) \notin StoredIds(documents) }
        rank(i) == Cardinality({ j \in keep : j <= i })
    IN [k \in 1 .. Cardinality(keep) |-> list[CHOOSE i \in keep : rank(i) = k]]

----------------------------------------------------------------------------
(* Attempts of process_transactions *)

\* an attempt of process_transactions ends in an exception
AttemptFailed == ct_pc = "process" /\ attemptFailsLeft' < attemptFailsLeft

\* an attempt of process_transactions returns the two lists
AttemptSucceeded == ct_pc = "process" /\ calls' = calls + 1

\* C27: a call of process_transactions runs the classification step at most
\* max_retries = 3 times: its counter starts at 0, the first attempt that succeeds
\* ends the call with that attempt's result, every failed attempt is followed by a
\* sleep of 5 s, and the third failed attempt of a call ends it with RuntimeError.
C27_AtMostThreeAttempts ==
    /\ [](ct_pc = "process" => retries \in 0 .. max_retries - 1)
    /\ [][ /\ ct_pc # "process" /\ ct_pc' = "process" => retries' = 0
           /\ ct_pc = "process" => AttemptFailed \/ AttemptSucceeded
           /\ AttemptSucceeded
                => /\ ct_pc' = "write"
                   /\ sleeps' = sleeps
                   /\ now' = now
                   /\ Len(parsed_data') + Len(ct_unprocessed') = Len(transactions_data)
                   /\ \A i \in 1 .. Len(parsed_data') : HasCategory(parsed_data'[i])
           /\ AttemptFailed
                => /\ retries' = retries + 1
                   /\ calls' = calls
                   /\ sleeps' = Append(sleeps, 5)
                   /\ now' = now + 5
                   /\ retries' < 3 => ct_pc' = "process"
                   /\ retries' = 3 => ct_pc' = "error" /\ ct_error' = "RuntimeError" ]_vars

C27_Witness ==
    /\ ct_pc = "write"
    /\ calls = 2
    /\ retries = 1
    /\ Len(sleeps) = 3
    /\ now = 15

----------------------------------------------------------------------------
(* Persistence round by round *)

\* C28: in spreadsheet the records a round classified are upserted before the next
\* classification round starts, and when spreadsheet returns every record of the
\* returned list carries a Category and is stored in the collection.
C28_WrittenBeforeNextRound ==
    /\ [](ct_pc = "process"
            => /\ Len(upserted) = Len(ct_processed)
               /\ \A i \in 1 .. Len(ct_processed) :
                    HasCategory(ct_processed[i]) /\ Persisted(ct_processed[i]))
    /\ [][ ct_pc = "process" /\ calls' > 1
             => \A i \in 1 .. Len(parsed_data) : Persisted(parsed_data[i]) ]_vars
    /\ [](ct_pc = "done"
            => /\ Len(ct_output) = Len(transactions_data) \/ calls > 1
               /\ \A i \in 1 .. Len(ct_output) :
                    HasCategory(ct_output[i]) /\ Persisted(ct_output[i]))

C28_Witness ==
    /\ ct_pc = "done"
    /\ calls = 2
    /\ Len(ct_output) = 2
    /\ coll0 = << >>
    /\ Len(collection) = 2
    /\ \A i \in 1 .. Len(ct_output) : Persisted(ct_output[i])

----------------------------------------------------------------------------
(* Records without a Transaction ID *)

NoTransactionId(transaction) == "Transaction ID" \notin DOMAIN transaction

\* C29: the write step skips a transaction that has no Transaction ID: the
\* iteration over such a record leaves the collection unchanged, and an iteration
\* over a record that has one upserts it.
C29_SkipsWithoutTransactionId ==
    [][ ct_pc = "write" /\ widx' = widx + 1
          => IF NoTransactionId(parsed_data[widx])
             THEN collection' = collection
             ELSE collection' = update_one(collection, parsed_data[widx]["Transaction ID"],
                                           update_document(parsed_data[widx])) ]_vars

----------------------------------------------------------------------------
(* Runs without a failure *)

\* C30: when the classifier succeeds for every record on its first submission,
\* categorize submits every record exactly once, the number of requests is the
\* number of input records, and the output has the input's order: every request is
\* for the first input record not yet classified and classifies it.
C30_OneRequestEach ==
    /\ [][ sent' # sent /\ sent' # << >>
             => /\ Len(processed) + Len(sent) < Len(data.value)
                /\ sent' = Append(sent, data.value[Len(processed) + Len(sent) + 1].Description)
                /\ Len(script_processed') = Len(sent') ]_vars
    /\ [](pc = "calling"
            => /\ sent = Take(DescriptionsOf(batch), Len(sent))
               /\ DescriptionsOf(processed \o script_processed)
                    = Take(DescriptionsOf(data.value), Len(processed) + Len(sent))
               /\ DescriptionsOf(processed \o batch \o unprocessed)
                    = DescriptionsOf(data.value))
    /\ [](pc = "done"
            => /\ Len(processed) = Len(data.value)
               /\ DescriptionsOf(output) = DescriptionsOf(data.value)
               /\ \A i \in 1 .. Len(output) : HasCategory(output[i]))

C30_Witness ==
    /\ pc = "done"
    /\ rounds = 2
    /\ Len(data.value) = BulkLen
    /\ sent = << BulkLen >>
    /\ Len(output) = BulkLen
    /\ \A d \in DOMAIN failsLeft : failsLeft[d] = 0

----------------------------------------------------------------------------
(* The batch size when the sleeps are exact *)

\* the sleeps that are over
SleepsDone == IF pc = "sleeping" THEN Len(sleeps) - 1 ELSE Len(sleeps)

\* since the invocation began the clock advanced only in the classification calls
\* and in sleeps of exactly retry_delay
ExactSleeps == now = Sum(response_times) + retry_delay * SleepsDone

\* C24: in an invocation started from empty telemetry whose sleeps last exactly the
\* 5 s retry delay, time passing only in classifier calls and sleeps, the increase
\* branch of adjust_batch_size is never taken: the batch size never grows and never
\* exceeds 50, and a call-time history of two or more entries spans under 60 s.
C24_NoIncreaseWithExactSleeps ==
    /\ [][ ExactSleeps' => current_batch_size' <= current_batch_size ]_vars
    /\ [](ExactSleeps => current_batch_size <= initial_batch_size)
    /\ [](Len(api_call_times) > 1
            => api_call_times[Len(api_call_times)] - api_call_times[1] < Window)
    /\ [](ExactSleeps /\ AtLoopTest /\ Len(api_call_times) <= 1
            => ~(/\ Len(response_times) >= LatencySamples
                 /\ Sum(LastN(response_times, LatencySamples)) \div LatencySamples
                        < LatencyLimit))

\* after five fast rounds a slow call emptied the call-time history of all but its
\* own entry, and the next round kept the batch size
C24_Witness ==
    /\ ExactSleeps
    /\ pc = "calling"
    /\ rounds = 7
    /\ Len(api_call_times) = 1
    /\ Len(response_times) = 6
    /\ response_times[6] >= Window - retry_delay
    /\ current_batch_size = initial_batch_size - 4

\* every two consecutive rounds so far completed less than a window apart: the
\* sleeps were exact and no call after the first took Window - retry_delay or more
CloseRounds ==
    /\ ExactSleeps
    /\ \A i \in 2 .. Len(response_times) : retry_delay + response_times[i] < Window

\* the batch size of round r when it shrinks by one per round from the third on
ShrunkBatchSize(r) ==
    IF r <= 2 THEN initial_batch_size ELSE Max(MinBatch, initial_batch_size - (r - 2))

\* C25: from empty telemetry, while every two consecutive rounds complete less than
\* 60 s apart, the batch size is 50 in rounds 1 and 2 and max(1, 50 - (r - 2)) in
\* every round r >= 3, whatever the latencies and the classifier's answers.
C25_ShrinksByOnePerRound ==
    CloseRounds /\ rounds >= 1 => current_batch_size = ShrunkBatchSize(rounds)

C25_Witness ==
    /\ CloseRounds
    /\ pc = "calling"
    /\ rounds = initial_batch_size + 2
    /\ current_batch_size = MinBatch
    /\ Len(response_times) = rounds - 1

----------------------------------------------------------------------------
(* Records that never classify *)

Stuck(t) == failsLeft[t.Description] = Never

\* the queue the loop works on: during a round, the batch and what stayed behind it
Queue == IF pc = "calling" THEN batch \o unprocessed ELSE unprocessed

\* at least n records at the head of q never classify
StuckAtHead(q, n) == Len(q) >= n /\ \A j \in 1 .. n : Stuck(q[j])

\* the batch size is no larger than the number of never-classifying records at the
\* head of the queue
Blocked ==
    /\ pc \in { "loop", "calling", "sleeping" }
    /\ Queue # << >>
    /\ StuckAtHead(Queue, current_batch_size)

\* what a step of a blocked run does: the queue stays blocked, nothing is classified,
\* categorize does not return, and only never-classifying records are submitted
StaysBlocked ==
    /\ Blocked'
    /\ processed' = processed
    /\ pc' \notin { "done", "error" }
    /\ sent' # sent /\ sent' # << >> => failsLeft[sent'[Len(sent')]] = Never

\* C26 (as stated): once the batch size is no larger than the number of
\* never-succeeding records at the head of the queue, no record behind them is ever
\* submitted again, processed stops growing and categorize never terminates.
C26_HeadOfLineBlocking == [][ Blocked => StaysBlocked ]_vars

\* C26 (amended): the same for as long as the batch size does not grow; the increase
\* branch of adjust_batch_size can enlarge the batch beyond the blocked head.
C26_BlockedWhileBatchDoesNotGrow ==
    [][ Blocked /\ current_batch_size' <= current_batch_size => StaysBlocked ]_vars

C26_Witness ==
    /\ Blocked
    /\ pc = "calling"
    /\ rounds >= 3
    /\ current_batch_size < initial_batch_size
    /\ Len(sent) = current_batch_size
    /\ unprocessed # << >>
    /\ ~Stuck(unprocessed[Len(unprocessed)])
    /\ processed = << >>

----------------------------------------------------------------------------
(* Attempts of authenticate *)

\* all entries of s are AutoReconnect
AllReconnects(s) == \A i \in 1 .. Len(s) : s[i] = "AutoReconnect"

\* C22: authenticate makes at most 3 connection attempts: it returns the collection
\* on the first attempt that succeeds, tries again after an AutoReconnect, raises
\* OperationFailure after the third consecutive AutoReconnect, raises at once when
\* an attempt fails with OperationFailure, and never returns without a collection.
C22_AtMostThreeConnections ==
    /\ [](/\ Len(au_attempts) <= auth_max_retries
          /\ au_pc = "loop" => AllReconnects(au_attempts) /\ au_retries = Len(au_attempts)
                               /\ Len(au_attempts) < auth_max_retries
          /\ au_pc = "returned"
                => /\ au_result = "collection"
                   /\ au_attempts # << >>
                   /\ au_attempts[Len(au_attempts)] = "collection"
                   /\ AllReconnects(SubSeq(au_attempts, 1, Len(au_attempts) - 1))
          /\ au_pc = "raised"
                => /\ au_result # "collection"
                   /\ au_attempts # << >>
                   /\ au_attempts[Len(au_attempts)] = "AutoReconnect"
                        <=> Len(au_attempts) = auth_max_retries
                            /\ AllReconnects(au_attempts)
                   /\ au_attempts[Len(au_attempts)] \in { "AutoReconnect", "OperationFailure" }
                        => au_result = "OperationFailure")
    /\ [][ au_attempts' # au_attempts /\ au_attempts' # << >>
             => LET c == au_attempts'[Len(au_attempts')]
                IN /\ c = "collection" => au_pc' = "returned"
                   /\ c = "OperationFailure" => au_pc' = "raised"
                   /\ c = "AutoReconnect" /\ Len(au_attempts') < auth_max_retries
                        => au_pc' = "loop"
                   /\ c = "AutoReconnect" /\ Len(au_attempts') = auth_max_retries
                        => au_pc' = "raised" ]_vars

C22_Witness ==
    /\ au_pc = "raised"
    /\ au_result = "OperationFailure"
    /\ au_attempts = << "AutoReconnect", "AutoReconnect", "AutoReconnect" >>
    /\ au_calls = << "collection", "OperationFailure" >>

----------------------------------------------------------------------------
(* Model loading in the script of test.py *)

\* the requests posted so far for the transaction at position i (descriptions are
\* distinct in the lists of the model)
RequestsFor(i) ==
    Cardinality({ k \in 1 .. Len(ts_sent) : ts_sent[k] = ts_transactions[i].Description })

\* C23: in the script of test.py a model-loading response makes the script wait the
\* estimated time the service reports (10 s when it reports none) and send the same
\* transaction again, with at most 5 requests per transaction; the first response
\* with labels and scores sets Category to the top label and ends the requests for
\* that record.
C23_LoadingWaitsAndResends ==
    /\ [](\A i \in 1 .. Len(ts_transactions) : RequestsFor(i) <= script_max_retries)
    /\ [][ ts_sent' # ts_sent
             => /\ CurrentlyLoading(ts_response')
                    => /\ ts_pc' = "loop"
                       /\ ts_sleeps' = Append(ts_sleeps, estimated_time(ts_response'))
                       /\ ts_now' = ts_now + estimated_time(ts_response')
                       /\ ts_idx' = ts_idx
                       /\ attempts' = attempts + 1
                /\ HasLabels(ts_response')
                    => /\ ts_transactions'[ts_idx].Category = ts_response'.data.labels[1]
                       /\ ts_idx' = ts_idx + 1 ]_vars

----------------------------------------------------------------------------
(* Fields of the records *)

\* the input record with the description of t
InputOf(t) ==
    data.value[CHOOSE i \in 1 .. Len(data.value) : data.value[i].Description = t.Description]

\* t is its input record with nothing changed but a Category added
InputPlusCategory(t) ==
    /\ \E i \in 1 .. Len(data.value) : data.value[i].Description = t.Description
    /\ DOMAIN t = DOMAIN InputOf(t) \cup { "Category" }
    /\ Restrict(t, DOMAIN InputOf(t)) = InputOf(t)

----------------------------------------------------------------------------
(* Where the telemetry changes *)

HistoriesUnchanged ==
    /\ api_call_times' = api_call_times
    /\ response_times' = response_times

\* C32: the call-time and latency histories change only in the telemetry step that
\* follows the return of a classification call: one append to each, then the pruning
\* of the call times; adjust_batch_size, the drawing of the batch and the sleep
\* between rounds leave both unchanged, and the batch size changes only in
\* adjust_batch_size.
C32_TelemetryFrame ==
    [][ /\ RoundEnds
            => /\ response_times' = Append(response_times, now' - start_time)
               /\ api_call_times' =
                    SelectSeq(Append(api_call_times, now'),
                              LAMBDA call_time : now' - call_time < Window)
               /\ current_batch_size' = current_batch_size
        /\ ~RoundEnds => HistoriesUnchanged
        /\ rounds' = rounds + 1
            => /\ pc = "loop" /\ pc' = "calling"
               /\ HistoriesUnchanged
               /\ Len(batch') = Min(current_batch_size', Len(unprocessed))
        /\ pc = "sleeping" => HistoriesUnchanged /\ current_batch_size' = current_batch_size
        /\ current_batch_size' # current_batch_size => rounds' = rounds + 1 ]_vars

\* in a second call of categorize on the object a round has ended and old call times
\* were pruned
C32_Witness ==
    /\ Len(response_times) > rounds
    /\ pc \in { "loop", "sleeping" }
    /\ rounds >= 1
    /\ Len(api_call_times) = 1
    /\ Last(api_call_times) = now
    /\ current_batch_size < initial_batch_size

\* the records of a list that write_to_db upserts, in the order of the list
UpsertedOf(list) == SelectSeq(list, LAMBDA transaction : ~Skipped(transaction))

\* C35: in spreadsheet a retry round is started exactly when the previous round
\* returned unprocessed records, and it submits those records, in their order,
\* with no sleep before it; a round that runs through posts a request for every
\* record it was given, whatever their number; the loop is left exactly when a
\* round returned no unprocessed record; and the list returned is the
\* concatenation of the processed lists of all rounds, which are the lists the
\* rounds handed to write_to_db
C35_RetryRounds ==
    /\ [](ct_pc \in { "looptest", "done" } => UpsertedOf(ct_processed) = upserted)
    /\ [](ct_pc = "done" => /\ ct_output = ct_processed
                            /\ ct_unprocessed = << >>)
    /\ [][ /\ (ct_pc = "looptest" /\ ct_pc' = "process") =>
                /\ ct_unprocessed # << >>
                /\ transactions_data' = ct_unprocessed
                /\ now' = now
                /\ sleeps' = sleeps
           /\ (ct_pc = "looptest" /\ ct_pc' = "done") =>
                /\ ct_unprocessed = << >>
                /\ ct_output' = ct_processed
           /\ (ct_pc = "looptest" /\ ct_pc' # ct_pc) => ct_pc' \in { "process", "done" }
           /\ (ct_pc = "process" /\ ct_pc' = "write") =>
                /\ sent' = sent \o DescriptionsOf(transactions_data)
                /\ Len(parsed_data') + Len(ct_unprocessed') = Len(transactions_data)
                /\ calls > 0 => transactions_data = ct_unprocessed
           /\ (ct_pc = "write" /\ ct_pc' = "looptest") =>
                ct_processed' = IF calls = 1 THEN parsed_data
                                ELSE ct_processed \o parsed_data ]_vars

\* spreadsheet returned after two rounds: the first classified the first row and
\* returned the second as unprocessed, the retry round classified the second
C35_Witness ==
    /\ ct_pc = "done"
    /\ calls = 2
    /\ Len(ct_output) = 2
    /\ ct_output[1].Description = 1
    /\ ct_output[2].Description = 2
    /\ parsed_data = << ct_output[2] >>
    /\ sleeps = << >>

\* the documents of the collection stored under the Transaction ID of the record
StoredFor(transaction) ==
    { i \in 1 .. Len(collection) :
        collection[i]["Transaction ID"] = transaction["Transaction ID"] }

\* C34: in the test.py variant a transaction whose 5 attempts were all answered
\* model-loading is passed over without a sixth request and without a Category, and
\* the script goes on with the next transaction; what the script prints holds every
\* transaction it was given, classified or not; and write_to_db stores one document
\* for each of them, with exactly the fields of the printed record, so the document
\* of a transaction that was given up has no Category
C34_GivenUpStillWritten ==
    /\ [](ts_pc = "loop" /\ attempts = script_max_retries =>
            /\ ts_idx <= Len(ts_transactions)
            /\ ~HasCategory(ts_transactions[ts_idx])
            /\ LastN(ts_sent, script_max_retries) =
                    [j \in 1 .. script_max_retries |-> ts_transactions[ts_idx].Description]
            /\ Len(ts_sleeps) >= script_max_retries)
    /\ [](ts_pc \in { "printed", "written" } =>
            /\ Len(ts_output) = Len(variant_filter_existing(sheet.value, coll0))
            /\ \A i \in 1 .. Len(ts_output) :
                    /\ Restrict(ts_output[i], { "Transaction ID", "Description" }) =
                            variant_filter_existing(sheet.value, coll0)[i]
                    /\ DOMAIN ts_output[i] \subseteq
                            { "Transaction ID", "Description", "Category" })
    /\ [](ts_pc = "written" =>
            \A i \in 1 .. Len(ts_output) :
                /\ Cardinality(StoredFor(ts_output[i])) = 1
                /\ \A j \in StoredFor(ts_output[i]) : collection[j] = ts_output[i])
    /\ [][ts_pc = "loop" /\ attempts = script_max_retries =>
            /\ ts_pc' = "loop"
            /\ ts_idx' = ts_idx + 1
            /\ ts_transactions' = ts_transactions
            /\ ts_sent' = ts_sent]_vars

\* a run is through write_to_db: the first row was given up after 5 model-loading
\* answers and is stored without a Category, the second was classified and is
\* stored with one
C34_Witness ==
    /\ ts_pc = "written"
    /\ Len(ts_output) = 2
    /\ ~HasCategory(ts_output[1])
    /\ HasCategory(ts_output[2])
    /\ Len(ts_sent) = script_max_retries + 1
    /\ collection = ts_output

\* the requests the script posted in the batch_time seconds that begin at time t
SentWithin(t) ==
    { k \in 1 .. Len(ts_sent_at) : t <= ts_sent_at[k] /\ ts_sent_at[k] < t + batch_time }

\* C33: the script of test.py posts at most 30 requests in any interval of 60
\* seconds (it is enough to look at the intervals that begin with a request)
C33_AtMostThirtyPerMinute ==
    \A k \in 1 .. Len(ts_sent_at) : Cardinality(SentWithin(ts_sent_at[k])) <= batch_size

\* the pause of lines 122-129: when the batch_size-th transaction of a group is done
\* the script sleeps until batch_time has passed since start_time, and the next group
\* starts then with its counter at 0
C33_PauseAfterGroup ==
    [][request_count' = 0 /\ ts_idx' = ts_idx + 1 =>
            /\ request_count = batch_size - 1
            /\ ts_now' = Max(ts_now, ts_start_time + batch_time)
            /\ ts_start_time' = ts_now']_vars

\* the first group is through and the second has begun
C33_SecondGroup ==
    /\ ts_idx > batch_size
    /\ request_count = 0
    /\ ts_start_time = batch_time
    /\ Len(ts_sent) > batch_size

====
